---- MODULE Spec2Model ----
(***************************************************************************)
(* Multi-agent coordination pipeline of EVoCv2_LLM_Pipeline:               *)
(*   services/agent_coordinator.py      AgentCoordinator                   *)
(*   services/cell_management_service.py CellManagementService             *)
(*   agents/*.py                        the seven agents                   *)
(*   api/agents.py                      coordinate / regenerate handlers   *)
(*   services/chatgroq_service.py       the generation backend call        *)
(*                                                                         *)
(* A "coordinator" c is one AgentCoordinator object together with the      *)
(* request handler that drives it.  Handlers are coroutines: every await   *)
(* on the generation backend or on the database is a step boundary, and    *)
(* the steps of different handlers interleave.                             *)
(* Time (datetime.utcnow) is a logical clock that advances at every write. *)
(* A text returned by the backend is a token naming the call that made it. *)
(* A SELECT with ORDER BY returns the rows in any order that agrees with   *)
(* the sort keys.  Specifications:                                         *)
(*   Spec          requests of one handler, one after the other            *)
(*   SpecRace      concurrent regeneration requests                        *)
(*   SpecLive      coordinate runs under fair scheduling                   *)
(*   SpecStore     concurrent regenerations with list / program view reads *)
(*   SpecPair      two concurrent coordinate runs on different notebooks   *)
(*   SpecAnalyse   the Problem Analyser on every problem statement         *)
(*   SpecMessages  messages of every type delivered to one agent           *)
(***************************************************************************)
EXTENDS Integers, Sequences, FiniteSets, TLC

\* ---------------------------------------------------------------- bounds
\* requests issued in a behaviour: one after the other / concurrently
MaxRequests == 2
MaxRaceRequests == 3
MaxLiveRequests == 2
MaxStoreRequests == 3
MaxAnalyseRequests == 2
\* messages delivered to one agent
MaxMessages == 2

\* two AgentCoordinator objects, each with the handler driving it
Coordinators == { 1, 2 }
\* two notebooks, each belonging to its own problem statement
Notebooks == { 1, 2 }

\* ------------------------------------------------------ program constants
max_retries == 3

None == [none |-> TRUE]

execution_flow ==
    << "problem_analyser", "individuals_modelling", "fitness_function",
       "crossover_function", "mutation_function", "selection_strategy",
       "code_integration" >>

NumStages == Len(execution_flow)

AgentIds == { execution_flow[k] : k \in 1..NumStages }

get_cell_type(a) ==
    CASE a = "problem_analyser"      -> "problem_analysis"
      [] a = "individuals_modelling" -> "individual_representation"
      [] a = "fitness_function"      -> "fitness"
      [] a = "crossover_function"    -> "crossover"
      [] a = "mutation_function"     -> "mutation"
      [] a = "selection_strategy"    -> "selection"
      [] a = "code_integration"      -> "toolbox_registration"

cell_position(a) ==
    CASE a = "problem_analyser"      -> 1
      [] a = "individuals_modelling" -> 2
      [] a = "fitness_function"      -> 3
      [] a = "crossover_function"    -> 4
      [] a = "mutation_function"     -> 5
      [] a = "selection_strategy"    -> 6
      [] a = "code_integration"      -> 7

valid_cell_types ==
    << "problem_analysis", "individual_representation", "fitness",
       "crossover", "mutation", "selection", "toolbox_registration" >>

ValidCellTypes == { valid_cell_types[k] : k \in 1..Len(valid_cell_types) }

cell_to_agent(t) ==
    CASE t = "problem_analysis"          -> "problem_analyser"
      [] t = "individual_representation" -> "individuals_modelling"
      [] t = "fitness"                   -> "fitness_function"
      [] t = "crossover"                 -> "crossover_function"
      [] t = "mutation"                  -> "mutation_function"
      [] t = "selection"                 -> "selection_strategy"
      [] t = "toolbox_registration"      -> "code_integration"

\* cell types a regeneration request may name (one is outside the enumeration)
RequestedCellTypes == ValidCellTypes \cup {"evaluation"}

\* f"{x}_code"
CodeKey(x) == x \o "_code"

\* ------------------------------------------------------- problem contexts
\* Texts are sequences of characters so that str(), lower() and the
\* substring test of the Problem Analyser can be computed.
Upper == << "A", "E", "I", "M", "X", "Z" >>
Lower == << "a", "e", "i", "m", "x", "z" >>

LowerChar(ch) ==
    IF \E k \in 1..Len(Upper) : Upper[k] = ch
    THEN Lower[CHOOSE k \in 1..Len(Upper) : Upper[k] = ch]
    ELSE ch

\* str.lower()
LowerStr(s) == [k \in 1..Len(s) |-> LowerChar(s[k])]

RECURSIVE JoinRepr(_)
\* the elements of str(list): 'e1', 'e2', ...
JoinRepr(l) ==
    IF Len(l) = 0 THEN << >>
    ELSE IF Len(l) = 1 THEN << "'" >> \o l[1] \o << "'" >>
    ELSE << "'" >> \o l[1] \o << "'", ",", " " >> \o JoinRepr(Tail(l))

\* str(objectives) for a list of strings
StrList(l) == << "[" >> \o JoinRepr(l) \o << "]" >>

\* needle in haystack
Contains(needle, haystack) ==
    \E k \in 0..(Len(haystack) - Len(needle)) :
        \A j \in 1..Len(needle) : haystack[k + j] = needle[j]

maximize == << "m", "a", "x", "i", "m", "i", "z", "e" >>

\* the problem statements the notebooks belong to (read from the database by
\* the request handlers); objectives are lists of strings
ProblemContexts ==
    << [problem_type |-> "optimization",
        objectives   |-> << << "M", "a", "x", "i", "m", "i", "z", "e", " ", "x" >> >>,
        constraints  |-> "none"],
       [problem_type |-> "scheduling",
        objectives   |-> << << "m", "i", "n", "i", "m", "i", "z", "e", "_", "x" >> >>,
        constraints  |-> "none"],
       [problem_type |-> "optimization",
        objectives   |-> << << "m", "a", "x", "i", "m", "i", "z", "e" >> >>,
        constraints  |-> "none"],
       [problem_type |-> "routing",
        objectives   |-> << >>,
        constraints  |-> "none"],
       [problem_type |-> "classification",
        objectives   |-> << << "m", "a", "x" >>, << "i", "m", "i", "z", "e" >> >>,
        constraints  |-> "bounded"],
       [problem_type |-> "scheduling",
        objectives   |-> << << "m", "i", "n" >>,
                            << "x", "M", "A", "X", "I", "M", "I", "Z", "E" >> >>,
        constraints  |-> "bounded"] >>

\* api/agents.py: problem_context built from the notebook's problem row
ProblemContextOf(nb) == ProblemContexts[((nb - 1) % Len(ProblemContexts)) + 1]

\* one notebook per problem statement
AnalysedNotebooks == 1..Len(ProblemContexts)

\* the substring test applied to str(objectives) as it is
AnalysisCaseSensitive(problem_context) ==
    [problem_type           |-> problem_context.problem_type,
     objectives             |-> problem_context.objectives,
     constraints            |-> problem_context.constraints,
     individual_structure   |-> "list",
     optimization_direction |->
        IF Contains(maximize, StrList(problem_context.objectives))
        THEN "maximize" ELSE "minimize"]

\* ProblemAnalyserAgent.generate_code: the derived analysis
Analysis(problem_context) ==
    [problem_type           |-> problem_context.problem_type,
     objectives             |-> problem_context.objectives,
     constraints            |-> problem_context.constraints,
     individual_structure   |-> "list",
     optimization_direction |->
        IF Contains(maximize, LowerStr(StrList(problem_context.objectives)))
        THEN "maximize" ELSE "minimize"]

\* ------------------------------------------------------------ dictionaries
EmptyDict == [k \in {} |-> 0]

\* d[k] = v
Put(d, k, v) == [x \in (DOMAIN d) \cup {k} |-> IF x = k THEN v ELSE d[x]]

\* ------------------------------------------------------------------ agents
\* BaseAgent.__init__
NewAgent == [context |-> EmptyDict, generated_code |-> None, messages |-> << >>]

\* AgentCoordinator.__init__: seven fresh agents
NewAgents == [a \in AgentIds |-> NewAgent]

AgentMessage(from_agent, to_agent, message_type, content) ==
    [from_agent |-> from_agent, to_agent |-> to_agent,
     message_type |-> message_type, content |-> content]

\* a context_update replacing the context instead of merging into it
receive_messageReplacesContext(agent, message) ==
    [agent EXCEPT
        !.messages = Append(@, message),
        !.context =
            IF message.message_type = "context_update"
            THEN message.content
            ELSE IF message.message_type = "code_generated"
            THEN Put(@, CodeKey(message.from_agent), message.content)
            ELSE @]

\* a code_generated message that does not overwrite an entry the context
\* already holds (setdefault instead of assignment)
receive_messageKeepsFirst(agent, message) ==
    [agent EXCEPT
        !.messages = Append(@, message),
        !.context =
            IF message.message_type = "context_update"
            THEN [x \in (DOMAIN @) \cup (DOMAIN message.content) |->
                    IF x \in DOMAIN message.content
                    THEN message.content[x] ELSE @[x]]
            ELSE IF message.message_type = "code_generated"
                    /\ CodeKey(message.from_agent) \notin DOMAIN @
            THEN Put(@, CodeKey(message.from_agent), message.content)
            ELSE @]

\* BaseAgent.receive_message
receive_message(agent, message) ==
    [agent EXCEPT
        !.messages = Append(@, message),
        !.context =
            IF message.message_type = "context_update"
            THEN [x \in (DOMAIN @) \cup (DOMAIN message.content) |->
                    IF x \in DOMAIN message.content
                    THEN message.content[x] ELSE @[x]]
            ELSE IF message.message_type = "code_generated"
            THEN Put(@, CodeKey(message.from_agent), message.content)
            ELSE @]

\* the broadcast reaching only the next agent of the flow
PropagateContextNextOnly(ags, current_index, agent_id, generated_code) ==
    [a \in AgentIds |->
        IF current_index < NumStages /\ execution_flow[current_index + 1] = a
        THEN receive_message(ags[a],
                AgentMessage(agent_id, a, "code_generated", generated_code))
        ELSE ags[a]]

\* AgentCoordinator._propagate_context_to_remaining_agents
\* current_index is the 1-based index of the stage that just completed
PropagateContext(ags, current_index, agent_id, generated_code) ==
    [a \in AgentIds |->
        IF \E k \in (current_index + 1)..NumStages : execution_flow[k] = a
        THEN receive_message(ags[a],
                AgentMessage(agent_id, a, "code_generated", generated_code))
        ELSE ags[a]]

\* what each agent's generate_code reads out of self.context
ContextReads(a) ==
    CASE a = "problem_analyser"      -> { }
      [] a = "individuals_modelling" -> { "analysis" }
      [] a = "fitness_function"      -> { "analysis", "individuals_modelling_code" }
      [] a = "crossover_function"    -> { "analysis", "individuals_modelling_code" }
      [] a = "mutation_function"     -> { "analysis", "individuals_modelling_code" }
      [] a = "selection_strategy"    -> { "analysis", "fitness_function_code" }
      [] a = "code_integration"      ->
            { "individuals_modelling_code", "fitness_function_code",
              "crossover_function_code", "mutation_function_code",
              "selection_strategy_code" }

\* self.context.get(key, default): the default is {} for "analysis", "" otherwise
Missing == [missing |-> TRUE]

ContextGet(context, key) ==
    IF key \in DOMAIN context THEN context[key] ELSE Missing

\* the context fields that generate_code formats into its prompt
BuildPrompt(a, context) == [k \in ContextReads(a) |-> ContextGet(context, k)]

\* ------------------------------------------------------------------- state
VARIABLES
    notebook_cells,  \* the notebook_cells table: sequence of committed rows
    clock,           \* datetime.utcnow()
    agents,          \* agents[c][agent_id]: the agents of coordinator c
    pc,              \* pc[c]: where the handler driving coordinator c stands
    frame,           \* frame[c]: the local variables of that handler
    response,        \* response[c]: what the last finished handler returned
    requests,        \* number of requests issued so far
    upserts          \* upserts[<<nb, t>>]: update_or_create_cell calls that
                     \* returned for notebook nb and cell type t (history)

vars ==
    << notebook_cells, clock, agents, pc, frame, response, requests, upserts >>

NewFrame ==
    [op |-> "none", request |-> 0, fresh |-> TRUE, before |-> << >>,
     notebook_id |-> 0, cell_type |-> "", cells |-> << >>,
     problem_context |-> None, i |-> 0, prompt |-> None,
     generated_code |-> None, attempt |-> 0, existing_cell |-> None,
     current_version |-> 0, cell_result |-> None, results |-> EmptyDict,
     \* asyncio.sleep calls made by the current generate_response call
     waits |-> 0,
     \* history of the request: generate_code invocations and
     \* generate_response calls per agent, and the calls not yet returned
     invocations |-> [a \in AgentIds |-> 0],
     backend_calls |-> [a \in AgentIds |-> 0],
     outstanding |-> {}]

\* the agent the handler of c is currently running
CurrentAgent(c) ==
    IF frame[c].op = "coordinate"
    THEN execution_flow[frame[c].i]
    ELSE cell_to_agent(frame[c].cell_type)

\* --------------------------------------------------------------- the table
RowIndices == 1..Len(notebook_cells)

\* WHERE notebook_id = :notebook_id AND cell_type = :cell_type AND is_active
ActiveRows(nb, t) ==
    { k \in RowIndices : /\ notebook_cells[k].notebook_id = nb
                         /\ notebook_cells[k].cell_type = t
                         /\ notebook_cells[k].is_active }

\* ... ORDER BY version DESC LIMIT 1: the rows the lookup may return
LookupCandidates(nb, t) ==
    { k \in ActiveRows(nb, t) :
        \A j \in ActiveRows(nb, t) :
            notebook_cells[j].version <= notebook_cells[k].version }

\* WHERE id = :cell_id
RowById(id) == CHOOSE k \in RowIndices : notebook_cells[k].id = id

\* WHERE notebook_id = :notebook_id AND is_active = true
ActiveOfNotebook(nb) ==
    { k \in RowIndices : /\ notebook_cells[k].notebook_id = nb
                         /\ notebook_cells[k].is_active }

\* ORDER BY created_at
RowBeforeCreatedAt(r, s) == r.created_at < s.created_at

\* ORDER BY position
RowBeforePositionOnly(r, s) == r.position < s.position

\* ORDER BY position, created_at
RowBefore(r, s) ==
    \/ r.position < s.position
    \/ r.position = s.position /\ r.created_at < s.created_at

\* the dict built from a row (lines 171-180)
CellDict(row) ==
    [id |-> row.id, cell_type |-> row.cell_type, code |-> row.code,
     agent_id |-> row.agent_id, version |-> row.version,
     position |-> row.position, created_at |-> row.created_at,
     updated_at |-> row.updated_at]

RECURSIVE SortRows(_)
\* the sequences the database may return for the rows S: every order that
\* agrees with the ORDER BY; rows equal in both keys come in any order
SortRows(S) ==
    IF S = {} THEN { << >> }
    ELSE LET first == { x \in S :
                        \A y \in S :
                            ~ RowBefore(notebook_cells[y], notebook_cells[x]) }
         IN UNION { { << CellDict(notebook_cells[k]) >> \o rest :
                        rest \in SortRows(S \ {k}) } : k \in first }

\* CellManagementService.get_notebook_cells: the lists it may return
get_notebook_cells(nb) == SortRows(ActiveOfNotebook(nb))

\* str.upper() on the cell types
upper(t) ==
    CASE t = "problem_analysis"          -> "PROBLEM_ANALYSIS"
      [] t = "individual_representation" -> "INDIVIDUAL_REPRESENTATION"
      [] t = "fitness"                   -> "FITNESS"
      [] t = "crossover"                 -> "CROSSOVER"
      [] t = "mutation"                  -> "MUTATION"
      [] t = "selection"                 -> "SELECTION"
      [] t = "toolbox_registration"      -> "TOOLBOX_REGISTRATION"

\* the four code_parts appended for one cell (lines 198-201)
CellParts(cell) ==
    << "# " \o upper(cell.cell_type) \o " - Generated by " \o cell.agent_id,
       "# ----------------------------------------",
       cell.code,
       "" >>

RECURSIVE AllCellParts(_)
AllCellParts(cells) ==
    IF Len(cells) = 0 THEN << >>
    ELSE CellParts(Head(cells)) \o AllCellParts(Tail(cells))

\* the view built without the test for an empty list
get_complete_notebook_codeNoPlaceholder(cells) ==
    << "# Complete DEAP Algorithm Generated by Multi-Agent System",
       "# ============================================================",
       "" >> \o AllCellParts(cells)

\* CellManagementService.get_complete_notebook_code, given the list that
\* get_notebook_cells returned: the code_parts that "\n".join puts one per
\* line
get_complete_notebook_code(cells) ==
    IF Len(cells) = 0 THEN << "# No code generated yet" >>
    ELSE << "# Complete DEAP Algorithm Generated by Multi-Agent System",
            "# ============================================================",
            "" >> \o AllCellParts(cells)

RECURSIVE SeedFrom(_, _, _)
\* api/agents.py regenerate_cell: the loop that copies existing code into
\* the agent's context
SeedFrom(context, existing_cells, cell_type) ==
    IF Len(existing_cells) = 0 THEN context
    ELSE LET cell == Head(existing_cells)
         IN SeedFrom(IF cell.cell_type # cell_type
                     THEN Put(context, CodeKey(cell.cell_type), cell.code)
                     ELSE context,
                     Tail(existing_cells), cell_type)

\* -------------------------------------------------------------------- Init
Init ==
    /\ notebook_cells = << >>
    /\ clock = 0
    /\ agents = [c \in Coordinators |-> NewAgents]
    /\ pc = [c \in Coordinators |-> "idle"]
    /\ frame = [c \in Coordinators |-> NewFrame]
    /\ response = [c \in Coordinators |-> None]
    /\ requests = 0
    /\ upserts = [p \in (Notebooks \cup AnalysedNotebooks) \X ValidCellTypes
                    |-> 0]

\* ------------------------------------------------------- starting requests
\* api/agents.py coordinate_agents: AgentCoordinator(db), then
\* coordinator.coordinate_agents(notebook_id, problem_context)
CoordinateRequest(c, nb) ==
    /\ pc[c] = "idle"
    /\ requests' = requests + 1
    /\ agents' = [agents EXCEPT ![c] = NewAgents]
    /\ frame' = [frame EXCEPT ![c] =
            [NewFrame EXCEPT !.op = "coordinate", !.request = requests + 1,
                             !.before = notebook_cells,
                             !.notebook_id = nb,
                             !.problem_context = ProblemContextOf(nb),
                             !.i = 1]]
    /\ response' = [response EXCEPT ![c] = None]
    /\ pc' = [pc EXCEPT ![c] = "generate"]
    /\ UNCHANGED << notebook_cells, clock, upserts >>

\* AgentCoordinator.coordinate_agents called again on a coordinator that has
\* already run: the agents keep their context, generated_code and messages
CoordinateAgain(c, nb) ==
    /\ pc[c] = "idle"
    /\ frame[c].op = "coordinate"
    /\ requests' = requests + 1
    /\ frame' = [frame EXCEPT ![c] =
            [NewFrame EXCEPT !.op = "coordinate", !.request = requests + 1,
                             !.before = notebook_cells,
                             !.fresh = FALSE, !.notebook_id = nb,
                             !.problem_context = ProblemContextOf(nb),
                             !.i = 1]]
    /\ response' = [response EXCEPT ![c] = None]
    /\ pc' = [pc EXCEPT ![c] = "generate"]
    /\ UNCHANGED << notebook_cells, clock, agents, upserts >>

\* regenerate_cell without the cell type check of lines 251-261
RegenerateRequestUnchecked(c, nb, t) ==
    /\ pc[c] = "idle"
    /\ requests' = requests + 1
    /\ response' = [response EXCEPT ![c] = None]
    /\ agents' = [agents EXCEPT ![c] = NewAgents]
    /\ frame' = [frame EXCEPT ![c] =
            [NewFrame EXCEPT !.op = "regenerate", !.request = requests + 1,
                             !.before = notebook_cells,
                             !.notebook_id = nb, !.cell_type = t,
                             !.problem_context = ProblemContextOf(nb)]]
    /\ pc' = [pc EXCEPT ![c] = "seed"]
    /\ UNCHANGED << notebook_cells, clock, upserts >>

\* api/agents.py regenerate_cell up to the first database read after the
\* validation: cell type check, problem context, AgentCoordinator(db)
RegenerateRequest(c, nb, t) ==
    /\ pc[c] = "idle"
    /\ requests' = requests + 1
    /\ IF t \notin ValidCellTypes
       THEN /\ response' = [response EXCEPT ![c] =
                    [success |-> FALSE, status_code |-> 400,
                     message |-> "Invalid cell type"]]
            /\ frame' = [frame EXCEPT ![c] =
                    [NewFrame EXCEPT !.op = "rejected",
                                     !.request = requests + 1,
                             !.before = notebook_cells,
                                     !.notebook_id = nb, !.cell_type = t]]
            /\ pc' = pc
            /\ agents' = agents
       ELSE /\ response' = [response EXCEPT ![c] = None]
            /\ agents' = [agents EXCEPT ![c] = NewAgents]
            /\ frame' = [frame EXCEPT ![c] =
                    [NewFrame EXCEPT !.op = "regenerate",
                                     !.request = requests + 1,
                             !.before = notebook_cells,
                                     !.notebook_id = nb, !.cell_type = t,
                                     !.problem_context = ProblemContextOf(nb)]]
            /\ pc' = [pc EXCEPT ![c] = "seed"]
    /\ UNCHANGED << notebook_cells, clock, upserts >>

\* regenerate_cell: existing_cells = get_notebook_cells(notebook_id) and the
\* loop that adds the existing code to the agent's context
SeedContext(c) ==
    /\ pc[c] = "seed"
    /\ \E existing_cells \in get_notebook_cells(frame[c].notebook_id) :
        LET a == CurrentAgent(c)
        IN agents' = [agents EXCEPT ![c][a].context =
                        SeedFrom(@, existing_cells, frame[c].cell_type)]
    /\ pc' = [pc EXCEPT ![c] = "generate"]
    /\ UNCHANGED << notebook_cells, clock, frame, response, requests, upserts >>

\* api/agents.py get_notebook_cells: the cells of the notebook, or the error
\* response when the database raises
GetNotebookCells(c, nb) ==
    /\ pc[c] = "idle"
    /\ \/ \E cells \in get_notebook_cells(nb) :
            /\ frame' = [frame EXCEPT ![c] =
                    [NewFrame EXCEPT !.op = "cells", !.before = notebook_cells,
                                     !.notebook_id = nb, !.cells = cells]]
            /\ response' = [response EXCEPT ![c] =
                    [success |-> TRUE, status_code |-> 200,
                     data |-> [notebook_id |-> nb, cells |-> cells,
                               total_cells |-> Len(cells)]]]
       \/ /\ frame' = [frame EXCEPT ![c] =
                    [NewFrame EXCEPT !.op = "cells", !.before = notebook_cells,
                                     !.notebook_id = nb]]
          /\ response' = [response EXCEPT ![c] =
                    [success |-> FALSE, status_code |-> 500,
                     message |-> "Failed to get notebook cells: database error"]]
    /\ UNCHANGED << notebook_cells, clock, agents, pc, requests, upserts >>

\* api/agents.py get_complete_code: get_complete_notebook_code(notebook_id),
\* or the error response when the database raises
GetCompleteCode(c, nb) ==
    /\ pc[c] = "idle"
    /\ \/ \E cells \in get_notebook_cells(nb) :
            /\ frame' = [frame EXCEPT ![c] =
                    [NewFrame EXCEPT !.op = "complete_code",
                                     !.before = notebook_cells,
                                     !.notebook_id = nb, !.cells = cells]]
            /\ response' = [response EXCEPT ![c] =
                    [success |-> TRUE, status_code |-> 200,
                     data |-> [notebook_id |-> nb,
                               complete_code |->
                                    get_complete_notebook_code(cells)]]]
       \/ /\ frame' = [frame EXCEPT ![c] =
                    [NewFrame EXCEPT !.op = "complete_code",
                                     !.before = notebook_cells,
                                     !.notebook_id = nb]]
          /\ response' = [response EXCEPT ![c] =
                    [success |-> FALSE, status_code |-> 500,
                     message |-> "Failed to get complete code: database error"]]
    /\ UNCHANGED << notebook_cells, clock, agents, pc, requests, upserts >>

\* BaseAgent.receive_message called on agent a of coordinator c
ReceiveMessage(c, a, message) ==
    /\ Len(agents[c][a].messages) < MaxMessages
    /\ agents' = [agents EXCEPT ![c][a] = receive_message(@, message)]
    /\ UNCHANGED << notebook_cells, clock, pc, frame, response, requests,
                    upserts >>

\* --------------------------------------------------------- generate_code
\* agent.generate_code(problem_context) up to the backend call: the prompt
\* is built from the agent's context, then generate_response starts
InvokeGenerateCode(c) ==
    /\ pc[c] = "generate"
    /\ LET a == CurrentAgent(c)
       IN frame' = [frame EXCEPT ![c].prompt =
                        BuildPrompt(a, agents[c][a].context),
                                 ![c].attempt = 0,
                                 ![c].waits = 0,
                                 ![c].invocations[a] = @ + 1,
                                 ![c].backend_calls[a] = @ + 1,
                                 ![c].outstanding = @ \cup {a}]
    /\ pc' = [pc EXCEPT ![c] = "backend"]
    /\ UNCHANGED << notebook_cells, clock, agents, response, requests, upserts >>

\* f"Agent {agent_id} code generation failed: {e}"
GenerationFailedMessage(agent_id) ==
    "Agent " \o agent_id \o " code generation failed: ChatGroq API failed"

\* f"Agent {agent_id} cell storage failed: {e}"
StorageFailedMessage(agent_id) ==
    "Agent " \o agent_id \o " cell storage failed: database error"

\* the failure dict built from a results map that starts empty in the handler
FailedEmptyResults(c, error) ==
    /\ response' = [response EXCEPT ![c] =
            IF frame[c].op = "coordinate"
            THEN [success |-> FALSE, results |-> EmptyDict, error |-> error]
            ELSE [success |-> FALSE, status_code |-> 500,
                  message |-> "Failed to regenerate cell: " \o error]]
    /\ pc' = [pc EXCEPT ![c] = "idle"]
    /\ notebook_cells' = notebook_cells

\* the exception leaving the handler instead of being turned into a result
FailedEscapes(c, error) ==
    /\ response' = response
    /\ pc' = [pc EXCEPT ![c] = "raised"]
    /\ notebook_cells' = notebook_cells

\* the whole run in one transaction that the failure rolls back
FailedRollsBack(c, error) ==
    /\ response' = [response EXCEPT ![c] =
            IF frame[c].op = "coordinate"
            THEN [success |-> FALSE, results |-> frame[c].results,
                  error |-> error]
            ELSE [success |-> FALSE, status_code |-> 500,
                  message |-> "Failed to regenerate cell: " \o error]]
    /\ pc' = [pc EXCEPT ![c] = "idle"]
    /\ notebook_cells' = frame[c].before

\* a failed regeneration withdrawing the cell it was asked to replace
FailedDeactivatesCell(c, error) ==
    /\ response' = [response EXCEPT ![c] =
            IF frame[c].op = "coordinate"
            THEN [success |-> FALSE, results |-> frame[c].results,
                  error |-> error]
            ELSE [success |-> FALSE, status_code |-> 500,
                  message |-> "Failed to regenerate cell: " \o error]]
    /\ pc' = [pc EXCEPT ![c] = "idle"]
    /\ notebook_cells' =
            IF frame[c].op = "coordinate"
            THEN notebook_cells
            ELSE [x \in RowIndices |->
                    IF x \in ActiveRows(frame[c].notebook_id,
                                        frame[c].cell_type)
                    THEN [notebook_cells[x] EXCEPT !.is_active = FALSE]
                    ELSE notebook_cells[x]]

\* the handler's exit when something raised: coordinate_agents returns the
\* failure dict (lines 106-115), regenerate_cell an error response; what
\* earlier stages committed stays committed
Failed(c, error) ==
    /\ response' = [response EXCEPT ![c] =
            IF frame[c].op = "coordinate"
            THEN [success |-> FALSE, results |-> frame[c].results,
                  error |-> error]
            ELSE [success |-> FALSE, status_code |-> 500,
                  message |-> "Failed to regenerate cell: " \o error]]
    /\ pc' = [pc EXCEPT ![c] = "idle"]
    /\ notebook_cells' = notebook_cells

\* The text a backend call returns.  Texts are opaque to the pipeline; each
\* call's text is a token naming the call that produced it, so a text left
\* over from another run, stage or notebook is never mistaken for a new one.
Content(request, agent_id) == [request |-> request, agent |-> agent_id]

\* the agent also filing its own text in its context
AttemptSucceedsStoresOwnCode(c) ==
    /\ pc[c] = "backend"
    /\ LET a == CurrentAgent(c)
           code == Content(frame[c].request, a)
       IN /\ agents' = [agents EXCEPT
            ![c][a].generated_code = code,
            ![c][a].context =
                IF a = "problem_analyser"
                THEN Put(@, "analysis", Analysis(frame[c].problem_context))
                ELSE Put(@, CodeKey(a), code)]
          /\ frame' = [frame EXCEPT ![c].generated_code = code,
                                    ![c].outstanding = @ \ {a}]
    /\ pc' = [pc EXCEPT ![c] = "lookup"]
    /\ UNCHANGED << notebook_cells, clock, response, requests, upserts >>

\* the upsert started without being awaited: the loop moves on to the next
\* stage as soon as the text is generated
AttemptSucceedsUpsertDetached(c) ==
    /\ pc[c] = "backend"
    /\ LET a == CurrentAgent(c)
           code == Content(frame[c].request, a)
           detached == frame[c].op = "coordinate" /\ frame[c].i < NumStages
       IN /\ agents' = [agents EXCEPT
            ![c][a].generated_code = code,
            ![c][a].context =
                IF a = "problem_analyser"
                THEN Put(@, "analysis", Analysis(frame[c].problem_context))
                ELSE @]
          /\ frame' = [frame EXCEPT ![c].generated_code = code,
                                    ![c].outstanding = @ \ {a},
                                    ![c].i = IF detached THEN @ + 1 ELSE @]
          /\ pc' = [pc EXCEPT ![c] = IF detached THEN "generate" ELSE "lookup"]
    /\ UNCHANGED << notebook_cells, clock, response, requests, upserts >>

\* ChatGroqService.generate_response: one attempt returns content; the
\* agent stores it in generated_code (the Problem Analyser also derives its
\* analysis) and returns it
AttemptSucceeds(c) ==
    /\ pc[c] = "backend"
    /\ LET a == CurrentAgent(c)
           code == Content(frame[c].request, a)
       IN /\ agents' = [agents EXCEPT
            ![c][a].generated_code = code,
            ![c][a].context =
                IF a = "problem_analyser"
                THEN Put(@, "analysis", Analysis(frame[c].problem_context))
                ELSE @]
          /\ frame' = [frame EXCEPT ![c].generated_code = code,
                                    ![c].outstanding = @ \ {a}]
    /\ pc' = [pc EXCEPT ![c] = "lookup"]
    /\ UNCHANGED << notebook_cells, clock, response, requests, upserts >>

\* the agent calling generate_response a second time when the first call
\* has raised
AttemptFailsAgentRetries(c) ==
    /\ pc[c] = "backend"
    /\ IF frame[c].attempt < max_retries - 1
       THEN /\ frame' = [frame EXCEPT ![c].attempt = @ + 1,
                                    ![c].waits = @ + 1]
            /\ UNCHANGED << pc, response, notebook_cells >>
       ELSE IF frame[c].backend_calls[CurrentAgent(c)] < 2
       THEN /\ frame' = [frame EXCEPT
                    ![c].attempt = 0,
                    ![c].waits = 0,
                    ![c].backend_calls[CurrentAgent(c)] = @ + 1]
            /\ UNCHANGED << pc, response, notebook_cells >>
       ELSE /\ frame' = [frame EXCEPT ![c].outstanding =
                                            @ \ {CurrentAgent(c)}]
            /\ Failed(c, IF frame[c].op = "coordinate"
                         THEN GenerationFailedMessage(CurrentAgent(c))
                         ELSE "ChatGroq API failed")
    /\ UNCHANGED << clock, agents, requests, upserts >>

\* the delay taken after every failed attempt, the last one included
AttemptFailsWaitsBeforeRaise(c) ==
    /\ pc[c] = "backend"
    /\ IF frame[c].attempt < max_retries - 1
       THEN /\ frame' = [frame EXCEPT ![c].attempt = @ + 1,
                                    ![c].waits = @ + 1]
            /\ UNCHANGED << pc, response, notebook_cells >>
       ELSE /\ frame' = [frame EXCEPT ![c].waits = @ + 1,
                                    ![c].outstanding =
                                            @ \ {CurrentAgent(c)}]
            /\ Failed(c, IF frame[c].op = "coordinate"
                         THEN GenerationFailedMessage(CurrentAgent(c))
                         ELSE "ChatGroq API failed")
    /\ UNCHANGED << clock, agents, requests, upserts >>

\* the analysis dict stored before the backend is called, so that a failed
\* call leaves it behind
AttemptFailsWritesAnalysis(c) ==
    /\ pc[c] = "backend"
    /\ IF frame[c].attempt < max_retries - 1
       THEN /\ frame' = [frame EXCEPT ![c].attempt = @ + 1,
                                    ![c].waits = @ + 1]
            /\ UNCHANGED << pc, response, notebook_cells >>
       ELSE /\ frame' = [frame EXCEPT ![c].outstanding =
                                            @ \ {CurrentAgent(c)}]
            /\ Failed(c, IF frame[c].op = "coordinate"
                         THEN GenerationFailedMessage(CurrentAgent(c))
                         ELSE "ChatGroq API failed")
    /\ agents' = [agents EXCEPT ![c][CurrentAgent(c)].context =
            IF CurrentAgent(c) = "problem_analyser"
            THEN Put(@, "analysis", Analysis(frame[c].problem_context))
            ELSE @]
    /\ UNCHANGED << clock, requests, upserts >>

\* generate_response: one attempt raises; retry after a delay, or give up
\* after the last attempt
AttemptFails(c) ==
    /\ pc[c] = "backend"
    /\ IF frame[c].attempt < max_retries - 1
       THEN /\ frame' = [frame EXCEPT ![c].attempt = @ + 1,
                                    ![c].waits = @ + 1]
            /\ UNCHANGED << pc, response, notebook_cells >>
       ELSE /\ frame' = [frame EXCEPT ![c].outstanding =
                                            @ \ {CurrentAgent(c)}]
            /\ Failed(c, IF frame[c].op = "coordinate"
                         THEN GenerationFailedMessage(CurrentAgent(c))
                         ELSE "ChatGroq API failed")
    /\ UNCHANGED << clock, agents, requests, upserts >>

\* ------------------------------------------------- update_or_create_cell
\* _get_cell_by_type and the branch on existing_cell
LookupCell(c) ==
    /\ pc[c] = "lookup"
    /\ LET nb == frame[c].notebook_id
           t  == get_cell_type(CurrentAgent(c))
       IN IF LookupCandidates(nb, t) = {}
          THEN /\ frame' = [frame EXCEPT ![c].existing_cell = None]
               /\ pc' = [pc EXCEPT ![c] = "create"]
          ELSE \E k \in LookupCandidates(nb, t) :
               /\ frame' = [frame EXCEPT ![c].existing_cell =
                        [id |-> notebook_cells[k].id,
                         code |-> notebook_cells[k].code,
                         version |-> notebook_cells[k].version]]
               /\ pc' = [pc EXCEPT ![c] = "read_version"]
    /\ UNCHANGED << notebook_cells, clock, agents, response, requests, upserts >>

\* the new row placed after the rows the table already holds instead of at
\* the agent's cell_position
CreateCellPositionByCount(c) ==
    /\ pc[c] = "create"
    /\ LET a == CurrentAgent(c)
           cell_id == Len(notebook_cells) + 1
           now == clock + 1
       IN /\ notebook_cells' = Append(notebook_cells,
                [id |-> cell_id, notebook_id |-> frame[c].notebook_id,
                 cell_type |-> get_cell_type(a),
                 code |-> frame[c].generated_code, agent_id |-> a,
                 version |-> 1,
                 position |-> Cardinality(ActiveOfNotebook(
                                    frame[c].notebook_id)) + 1,
                 is_active |-> TRUE, created_at |-> now, updated_at |-> now])
          /\ clock' = now
          /\ frame' = [frame EXCEPT ![c].cell_result =
                [cell_id |-> cell_id, version |-> 1, action |-> "created"]]
          /\ upserts' = [upserts EXCEPT
                ![<< frame[c].notebook_id, get_cell_type(a) >>] = @ + 1]
    /\ pc' = [pc EXCEPT ![c] = "stored"]
    /\ UNCHANGED << agents, response, requests >>

\* _create_cell: INSERT ... version 1 ... and commit
CreateCell(c) ==
    /\ pc[c] = "create"
    /\ LET a == CurrentAgent(c)
           cell_id == Len(notebook_cells) + 1
           now == clock + 1
       IN /\ notebook_cells' = Append(notebook_cells,
                [id |-> cell_id, notebook_id |-> frame[c].notebook_id,
                 cell_type |-> get_cell_type(a),
                 code |-> frame[c].generated_code, agent_id |-> a,
                 version |-> 1, position |-> cell_position(a),
                 is_active |-> TRUE, created_at |-> now, updated_at |-> now])
          /\ clock' = now
          /\ frame' = [frame EXCEPT ![c].cell_result =
                [cell_id |-> cell_id, version |-> 1, action |-> "created"]]
          /\ upserts' = [upserts EXCEPT
                ![<< frame[c].notebook_id, get_cell_type(a) >>] = @ + 1]
    /\ pc' = [pc EXCEPT ![c] = "stored"]
    /\ UNCHANGED << agents, response, requests >>

\* _update_cell, first statement: SELECT version ... WHERE id = :cell_id
ReadVersion(c) ==
    /\ pc[c] = "read_version"
    /\ frame' = [frame EXCEPT ![c].current_version =
            notebook_cells[RowById(frame[c].existing_cell.id)].version]
    /\ pc' = [pc EXCEPT ![c] = "update"]
    /\ UNCHANGED << notebook_cells, clock, agents, response, requests, upserts >>

\* the increment done by the database: SET version = version + 1
NewVersionAtomic(current_version, stored_version) == stored_version + 1

\* the version written back without the increment
NewVersionSame(current_version, stored_version) == current_version

\* new_version = current_version + 1
NewVersion(current_version, stored_version) == current_version + 1

\* the UPDATE also setting created_at = :now
UpdateCellResetsCreatedAt(c) ==
    /\ pc[c] = "update"
    /\ LET cell_id == frame[c].existing_cell.id
           k == RowById(cell_id)
           new_version == NewVersion(frame[c].current_version,
                                     notebook_cells[k].version)
           now == clock + 1
       IN /\ notebook_cells' = [notebook_cells EXCEPT
                ![k].code = frame[c].generated_code,
                ![k].agent_id = CurrentAgent(c),
                ![k].version = new_version,
                ![k].created_at = now,
                ![k].updated_at = now]
          /\ clock' = now
          /\ frame' = [frame EXCEPT ![c].cell_result =
                [cell_id |-> cell_id, version |-> new_version,
                 action |-> "updated"]]
          /\ upserts' = [upserts EXCEPT
                ![<< notebook_cells[k].notebook_id,
                     notebook_cells[k].cell_type >>] = @ + 1]
    /\ pc' = [pc EXCEPT ![c] = "stored"]
    /\ UNCHANGED << agents, response, requests >>

\* the UPDATE without its WHERE id = :cell_id: every row is overwritten
UpdateCellAllRows(c) ==
    /\ pc[c] = "update"
    /\ LET cell_id == frame[c].existing_cell.id
           k == RowById(cell_id)
           new_version == NewVersion(frame[c].current_version,
                                     notebook_cells[k].version)
           now == clock + 1
       IN /\ notebook_cells' = [x \in RowIndices |->
                [notebook_cells[x] EXCEPT
                    !.code = frame[c].generated_code,
                    !.agent_id = CurrentAgent(c),
                    !.version = new_version,
                    !.updated_at = now]]
          /\ clock' = now
          /\ frame' = [frame EXCEPT ![c].cell_result =
                [cell_id |-> cell_id, version |-> new_version,
                 action |-> "updated"]]
          /\ upserts' = [upserts EXCEPT
                ![<< notebook_cells[k].notebook_id,
                     notebook_cells[k].cell_type >>] = @ + 1]
    /\ pc' = [pc EXCEPT ![c] = "stored"]
    /\ UNCHANGED << agents, response, requests >>

\* the update bumping the version without writing the new code
UpdateCellKeepsCode(c) ==
    /\ pc[c] = "update"
    /\ LET cell_id == frame[c].existing_cell.id
           k == RowById(cell_id)
           new_version == NewVersion(frame[c].current_version,
                                     notebook_cells[k].version)
           now == clock + 1
       IN /\ notebook_cells' = [notebook_cells EXCEPT
                ![k].agent_id = CurrentAgent(c),
                ![k].version = new_version,
                ![k].updated_at = now]
          /\ clock' = now
          /\ frame' = [frame EXCEPT ![c].cell_result =
                [cell_id |-> cell_id, version |-> new_version,
                 action |-> "updated"]]
          /\ upserts' = [upserts EXCEPT
                ![<< notebook_cells[k].notebook_id,
                     notebook_cells[k].cell_type >>] = @ + 1]
    /\ pc' = [pc EXCEPT ![c] = "stored"]
    /\ UNCHANGED << agents, response, requests >>

\* _update_cell, second statement: UPDATE ... SET code, agent_id, version,
\* updated_at WHERE id = :cell_id, and commit
UpdateCell(c) ==
    /\ pc[c] = "update"
    /\ LET cell_id == frame[c].existing_cell.id
           k == RowById(cell_id)
           new_version == NewVersion(frame[c].current_version,
                                     notebook_cells[k].version)
           now == clock + 1
       IN /\ notebook_cells' = [notebook_cells EXCEPT
                ![k].code = frame[c].generated_code,
                ![k].agent_id = CurrentAgent(c),
                ![k].version = new_version,
                ![k].updated_at = now]
          /\ clock' = now
          /\ frame' = [frame EXCEPT ![c].cell_result =
                [cell_id |-> cell_id, version |-> new_version,
                 action |-> "updated"]]
          /\ upserts' = [upserts EXCEPT
                ![<< notebook_cells[k].notebook_id,
                     notebook_cells[k].cell_type >>] = @ + 1]
    /\ pc' = [pc EXCEPT ![c] = "stored"]
    /\ UNCHANGED << agents, response, requests >>

\* the stage's output broadcast before the cell is stored
StorageFailsAfterBroadcast(c) ==
    /\ pc[c] \in {"seed", "lookup", "create", "read_version", "update"}
    /\ Failed(c, IF frame[c].op = "coordinate"
                 THEN StorageFailedMessage(CurrentAgent(c))
                 ELSE "database error")
    /\ agents' = [agents EXCEPT ![c] =
            IF frame[c].op = "coordinate"
            THEN PropagateContext(@, frame[c].i, CurrentAgent(c),
                                  frame[c].generated_code)
            ELSE @]
    /\ UNCHANGED << clock, frame, requests, upserts >>

\* the results entry of the stage written before its upsert is attempted, so
\* that a storage failure leaves the entry of the failed stage behind
StorageFailsEntryRecorded(c) ==
    /\ pc[c] \in {"seed", "lookup", "create", "read_version", "update"}
    /\ response' = [response EXCEPT ![c] =
            IF frame[c].op = "coordinate"
            THEN [success |-> FALSE,
                  results |-> Put(frame[c].results, CurrentAgent(c),
                        [agent_id |-> CurrentAgent(c),
                         cell_id |-> 0,
                         code |-> frame[c].generated_code,
                         cell_type |-> get_cell_type(CurrentAgent(c)),
                         success |-> TRUE]),
                  error |-> StorageFailedMessage(CurrentAgent(c))]
            ELSE [success |-> FALSE, status_code |-> 500,
                  message |-> "Failed to regenerate cell: database error"]]
    /\ pc' = [pc EXCEPT ![c] = "idle"]
    /\ UNCHANGED << notebook_cells, clock, agents, frame, requests, upserts >>

\* a database call raises: nothing is committed and the exception leaves
\* update_or_create_cell (or get_notebook_cells)
StorageFails(c) ==
    /\ pc[c] \in {"seed", "lookup", "create", "read_version", "update"}
    /\ Failed(c, IF frame[c].op = "coordinate"
                 THEN StorageFailedMessage(CurrentAgent(c))
                 ELSE "database error")
    /\ UNCHANGED << clock, agents, frame, requests, upserts >>

\* ------------------------------------------------------ after the upsert
\* the seven agents being one set of objects shared by all coordinators:
\* the broadcast reaches the agents of every run
RecordAndPropagateSharedAgents(c) ==
    /\ pc[c] = "stored"
    /\ frame[c].op = "coordinate"
    /\ LET i == frame[c].i
           agent_id == execution_flow[i]
           results == Put(frame[c].results, agent_id,
                [agent_id |-> agent_id,
                 cell_id |-> frame[c].cell_result.cell_id,
                 code |-> frame[c].generated_code,
                 cell_type |-> get_cell_type(agent_id),
                 success |-> TRUE])
       IN /\ agents' = [x \in Coordinators |->
                PropagateContext(agents[x], i, agent_id,
                                 frame[c].generated_code)]
          /\ IF i < NumStages
             THEN /\ frame' = [frame EXCEPT ![c].results = results,
                                            ![c].i = i + 1]
                  /\ pc' = [pc EXCEPT ![c] = "generate"]
                  /\ UNCHANGED response
             ELSE /\ frame' = [frame EXCEPT ![c].results = results]
                  /\ pc' = [pc EXCEPT ![c] = "idle"]
                  /\ response' = [response EXCEPT ![c] =
                        [success |-> TRUE, results |-> results,
                         message |-> "All agents executed successfully"]]
    /\ UNCHANGED << notebook_cells, clock, requests, upserts >>

\* the results entry stored under the agent's cell type
RecordAndPropagateKeyedByCellType(c) ==
    /\ pc[c] = "stored"
    /\ frame[c].op = "coordinate"
    /\ LET i == frame[c].i
           agent_id == execution_flow[i]
           results == Put(frame[c].results, get_cell_type(agent_id),
                [agent_id |-> agent_id,
                 cell_id |-> frame[c].cell_result.cell_id,
                 code |-> frame[c].generated_code,
                 cell_type |-> get_cell_type(agent_id),
                 success |-> TRUE])
       IN /\ agents' = [agents EXCEPT ![c] =
                PropagateContext(@, i, agent_id, frame[c].generated_code)]
          /\ IF i < NumStages
             THEN /\ frame' = [frame EXCEPT ![c].results = results,
                                            ![c].i = i + 1]
                  /\ pc' = [pc EXCEPT ![c] = "generate"]
                  /\ UNCHANGED response
             ELSE /\ frame' = [frame EXCEPT ![c].results = results]
                  /\ pc' = [pc EXCEPT ![c] = "idle"]
                  /\ response' = [response EXCEPT ![c] =
                        [success |-> TRUE, results |-> results,
                         message |-> "All agents executed successfully"]]
    /\ UNCHANGED << notebook_cells, clock, requests, upserts >>

\* coordinate_agents lines 84-104: the results entry, the broadcast to the
\* remaining agents, then the next stage or the success dict
RecordAndPropagate(c) ==
    /\ pc[c] = "stored"
    /\ frame[c].op = "coordinate"
    /\ LET i == frame[c].i
           agent_id == execution_flow[i]
           results == Put(frame[c].results, agent_id,
                [agent_id |-> agent_id,
                 cell_id |-> frame[c].cell_result.cell_id,
                 code |-> frame[c].generated_code,
                 cell_type |-> get_cell_type(agent_id),
                 success |-> TRUE])
       IN /\ agents' = [agents EXCEPT ![c] =
                PropagateContext(@, i, agent_id, frame[c].generated_code)]
          /\ IF i < NumStages
             THEN /\ frame' = [frame EXCEPT ![c].results = results,
                                            ![c].i = i + 1]
                  /\ pc' = [pc EXCEPT ![c] = "generate"]
                  /\ UNCHANGED response
             ELSE /\ frame' = [frame EXCEPT ![c].results = results]
                  /\ pc' = [pc EXCEPT ![c] = "idle"]
                  /\ response' = [response EXCEPT ![c] =
                        [success |-> TRUE, results |-> results,
                         message |-> "All agents executed successfully"]]
    /\ UNCHANGED << notebook_cells, clock, requests, upserts >>

\* regenerate_cell lines 310-320: the success response
RegenerateRespond(c) ==
    /\ pc[c] = "stored"
    /\ frame[c].op = "regenerate"
    /\ response' = [response EXCEPT ![c] =
            [success |-> TRUE, status_code |-> 200,
             data |-> [notebook_id |-> frame[c].notebook_id,
                       cell_type |-> frame[c].cell_type,
                       cell_id |-> frame[c].cell_result.cell_id,
                       action |-> frame[c].cell_result.action,
                       version |-> frame[c].cell_result.version,
                       generated_code |-> frame[c].generated_code]]]
    /\ pc' = [pc EXCEPT ![c] = "idle"]
    /\ UNCHANGED << notebook_cells, clock, agents, frame, requests, upserts >>

\* one step of agent.generate_code
GenerateStep(c) ==
    \/ InvokeGenerateCode(c)
    \/ AttemptSucceeds(c)
    \/ AttemptFails(c)

\* one step of cell_service.update_or_create_cell
UpsertStep(c) ==
    \/ LookupCell(c)
    \/ CreateCell(c)
    \/ ReadVersion(c)
    \/ UpdateCell(c)
    \/ StorageFails(c)

\* one step of the regenerate_cell handler
RegenerateStep(c) ==
    \/ SeedContext(c)
    \/ GenerateStep(c)
    \/ UpsertStep(c)
    \/ RegenerateRespond(c)

\* one step of AgentCoordinator.coordinate_agents
CoordinateStep(c) ==
    \/ GenerateStep(c)
    \/ UpsertStep(c)
    \/ RecordAndPropagate(c)

\* one step of the handler driving coordinator c
Step(c) ==
    \/ RegenerateStep(c)
    \/ RecordAndPropagate(c)

\* ---------------------------------------------------------- specifications
\* the coordinator whose requests never overlap
Sequential == 1

NewRequest(c) ==
    \/ \E nb \in Notebooks : CoordinateRequest(c, nb)
    \/ \E nb \in Notebooks : CoordinateAgain(c, nb)
    \/ \E nb \in Notebooks, t \in RequestedCellTypes :
            RegenerateRequest(c, nb, t)

\* requests are served one after the other (single writer per request)
Next ==
    \/ requests < MaxRequests /\ NewRequest(Sequential)
    \/ Step(Sequential)

Spec == Init /\ [][Next]_vars

\* the cell types the concurrent regeneration requests name
RaceCellTypes == { "fitness" }

\* regeneration requests served concurrently: their steps interleave
NextRace ==
    \/ /\ requests < MaxRaceRequests
       /\ \E c \in Coordinators, nb \in Notebooks, t \in RaceCellTypes :
            RegenerateRequest(c, nb, t)
    \/ \E c \in Coordinators : RegenerateStep(c)

SpecRace == Init /\ [][NextRace]_vars

\* coordinate runs one after the other on one notebook; every backend call and every
\* database call returns or raises, so the event loop resumes the handler
LiveNotebooks == { 1 }

NextLive ==
    \/ /\ requests < MaxLiveRequests
       /\ \E nb \in LiveNotebooks : CoordinateRequest(Sequential, nb)
    \/ CoordinateStep(Sequential)

SpecLive ==
    Init /\ [][NextLive]_vars /\ WF_vars(CoordinateStep(Sequential))

\* the notebook whose cells are created, updated and listed, and the cell
\* types (positions 3 and 1) the regeneration requests name
StoreNotebooks == { 1 }

StoreCellTypes == { "fitness", "problem_analysis" }

\* one step of a regeneration whose backend and database calls all return
RegenerateReturns(c) ==
    \/ SeedContext(c)
    \/ InvokeGenerateCode(c)
    \/ AttemptSucceeds(c)
    \/ LookupCell(c)
    \/ CreateCell(c)
    \/ ReadVersion(c)
    \/ UpdateCell(c)
    \/ RegenerateRespond(c)

\* cells of any type created and updated by concurrent regeneration
\* requests, in any order, and read by the two listing handlers
NextStore ==
    \/ /\ requests < MaxStoreRequests
       /\ \E c \in Coordinators, nb \in StoreNotebooks, t \in StoreCellTypes :
            RegenerateRequest(c, nb, t)
    \/ \E c \in Coordinators : RegenerateReturns(c)
    \/ \E c \in Coordinators, nb \in StoreNotebooks : GetNotebookCells(c, nb)
    \/ \E c \in Coordinators, nb \in StoreNotebooks : GetCompleteCode(c, nb)

SpecStore == Init /\ [][NextStore]_vars

\* the notebook of the run that coordinator c drives
PairNotebook(c) == c

\* one step of a coordinate run on a notebook that has no cells yet and
\* whose backend and database calls all return
CoordinateCreates(c) ==
    \/ InvokeGenerateCode(c)
    \/ AttemptSucceeds(c)
    \/ LookupCell(c)
    \/ CreateCell(c)
    \/ RecordAndPropagate(c)

\* two coordinate runs, each on its own notebook and driven by its own
\* coordinator, their steps interleaved in every order
NextPair ==
    \/ \E c \in Coordinators :
        /\ frame[c].op = "none"
        /\ CoordinateRequest(c, PairNotebook(c))
    \/ \E c \in Coordinators : CoordinateCreates(c)

SpecPair == Init /\ [][NextPair]_vars

\* the Problem Analyser run for the notebook of any of the problem
\* statements, one request after the other
NextAnalyse ==
    \/ /\ requests < MaxAnalyseRequests
       /\ \E nb \in AnalysedNotebooks :
            RegenerateRequest(Sequential, nb, "problem_analysis")
    \/ RegenerateStep(Sequential)

SpecAnalyse == Init /\ [][NextAnalyse]_vars

\* the messages delivered: code from two senders, context updates that
\* bring a new key or a key a code_generated message also sets, and a
\* message of another type
Senders == { "individuals_modelling", "fitness_function" }

ContextUpdates ==
    { [analysis |-> Analysis(ProblemContexts[1])],
      [individuals_modelling_code |-> Content(2, "individuals_modelling"),
       fitness_function_code |-> Content(2, "fitness_function")] }

Messages ==
    { AgentMessage(from, "code_integration", "code_generated",
                   Content(1, from)) : from \in Senders }
    \cup { AgentMessage(from, "code_integration", "context_update", content) :
                from \in Senders, content \in ContextUpdates }
    \cup { AgentMessage(from, "code_integration", "feedback",
                        Content(3, from)) : from \in Senders }

\* the agent the messages are delivered to, and the notebook of its request
Recipient == "code_integration"

RecipientNotebook == 1

\* messages of every type delivered to an agent before, while and after it
\* generates the code of its cell
NextMessages ==
    \/ /\ frame[Sequential].op = "none"
       /\ RegenerateRequest(Sequential, RecipientNotebook,
                            get_cell_type(Recipient))
    \/ SeedContext(Sequential)
    \/ InvokeGenerateCode(Sequential)
    \/ AttemptSucceeds(Sequential)
    \/ LookupCell(Sequential)
    \/ CreateCell(Sequential)
    \/ RegenerateRespond(Sequential)
    \/ \E message \in Messages : ReceiveMessage(Sequential, Recipient, message)

SpecMessages == Init /\ [][NextMessages]_vars

\* ------------------------------------------------------------------ claims
\* the coordinate run of coordinator c is about to invoke generate_code
InvokingStage(c) == pc[c] = "generate" /\ frame[c].op = "coordinate"

\* C1: in a coordinate run on a freshly constructed coordinator, the agent
\* invoked k-th is the k-th of problem_analyser, individuals_modelling,
\* fitness_function, crossover_function, mutation_function,
\* selection_strategy, code_integration; the agents 1..k-1 have produced
\* this run's output and the agents k..7 have produced nothing; and the
\* invoked agent's context holds "{agent_id}_code" with this run's output
\* for every agent 1..k-1 and no such key for any agent k..7.
C1_PipelineOrder ==
    \A c \in Coordinators :
        (InvokingStage(c) /\ frame[c].fresh) =>
            LET k == frame[c].i
                order == << "problem_analyser", "individuals_modelling",
                            "fitness_function", "crossover_function",
                            "mutation_function", "selection_strategy",
                            "code_integration" >>
                context == agents[c][CurrentAgent(c)].context
            IN /\ k \in 1..7
               /\ CurrentAgent(c) = order[k]
               /\ \A j \in 1..7 :
                    IF j < k
                    THEN /\ agents[c][order[j]].generated_code =
                                Content(frame[c].request, order[j])
                         /\ order[j] \in DOMAIN frame[c].results
                         /\ CodeKey(order[j]) \in DOMAIN context
                         /\ context[CodeKey(order[j])] =
                                frame[c].results[order[j]].code
                         /\ context[CodeKey(order[j])] =
                                Content(frame[c].request, order[j])
                    ELSE /\ agents[c][order[j]].generated_code = None
                         /\ CodeKey(order[j]) \notin DOMAIN context

\* the last stage of a fresh run is about to be invoked
C1_Witness ==
    \E c \in Coordinators :
        InvokingStage(c) /\ frame[c].fresh /\ frame[c].i = 7

\* update_or_create_cell has just returned to the handler of c
UpsertReturned(c) == pc[c] = "stored"

\* C2: when requests do not overlap, the N-th upsert that returns for a
\* (notebook_id, cell_type) returns version N, with action "created" for
\* N = 1 and "updated" for N > 1, and leaves exactly one active row for the
\* pair, whose stored version is the version returned.
C2_SequentialVersions ==
    \A c \in Coordinators :
        UpsertReturned(c) =>
            LET nb == frame[c].notebook_id
                t == get_cell_type(CurrentAgent(c))
                N == upserts[<< nb, t >>]
                r == frame[c].cell_result
            IN /\ N >= 1
               /\ r.version = N
               /\ r.action = (IF N = 1 THEN "created" ELSE "updated")
               /\ Cardinality(ActiveRows(nb, t)) = 1
               /\ \A k \in ActiveRows(nb, t) :
                    /\ notebook_cells[k].version = r.version
                    /\ notebook_cells[k].id = r.cell_id

\* a second upsert for a pair has returned
C2_Witness ==
    \E c \in Coordinators :
        /\ UpsertReturned(c)
        /\ upserts[<< frame[c].notebook_id,
                      get_cell_type(CurrentAgent(c)) >>] = MaxRequests
        /\ frame[c].cell_result.action = "updated"

\* C3: in every reachable state, also when upserts of concurrent requests
\* interleave, there is at most one active cell per (notebook_id, cell_type).
C3_AtMostOneActive ==
    \A nb \in Notebooks, t \in ValidCellTypes :
        Cardinality(ActiveRows(nb, t)) <= 1

\* the handler of d has finished an update of cell_id for which it had read
\* version v
UpdatedFrom(d, cell_id, v) ==
    /\ pc[d] \in {"stored", "idle"}
    /\ frame[d].cell_result # None
    /\ frame[d].cell_result.action = "updated"
    /\ frame[d].cell_result.cell_id = cell_id
    /\ frame[d].current_version = v

\* C4: when two concurrent upserts have both read version v of the same
\* active cell, the write of the second one loses an increment: both return
\* v + 1 and the version it stores is v + 1, not v + 2.
C4_LostIncrement ==
    [][ \A c \in Coordinators : \A d \in Coordinators \ {c} :
            ( /\ UpdateCell(c)
              /\ UpdatedFrom(d, frame[c].existing_cell.id,
                             frame[c].current_version) )
            => LET v == frame[c].current_version
                   k == RowById(frame[c].existing_cell.id)
               IN /\ frame[d].cell_result.version = v + 1
                  /\ frame'[c].cell_result.version = v + 1
                  /\ notebook_cells'[k].version = v + 1 ]_vars

\* a cell created once and updated by two overlapping requests that both
\* read version 1: three upserts returned, stored version 2
C4_Witness ==
    \E c \in Coordinators : \E d \in Coordinators \ {c} :
        /\ frame[c].existing_cell # None
        /\ UpdatedFrom(c, frame[c].existing_cell.id, 1)
        /\ UpdatedFrom(d, frame[c].existing_cell.id, 1)
        /\ upserts[<< frame[c].notebook_id, frame[c].cell_type >>] = 3
        /\ notebook_cells[RowById(frame[c].existing_cell.id)].version = 2

\* coordinate_agents has returned to its caller
Returned(c) ==
    pc[c] = "idle" /\ frame[c].op = "coordinate" /\ response[c] # None

\* ... with the failure dict
FailedRun(c) == Returned(c) /\ ~response[c].success

\* the errors of stage k
GenerationError(k) == GenerationFailedMessage(execution_flow[k])

StorageError(k) == StorageFailedMessage(execution_flow[k])

\* the agents of stages 1..k-1
StagesBefore(k) == { execution_flow[j] : j \in 1..(k - 1) }

\* the notebook of the request had no active cell when the request started
NoPriorCells(c) ==
    \A j \in 1..Len(frame[c].before) :
        ~ ( /\ frame[c].before[j].notebook_id = frame[c].notebook_id
            /\ frame[c].before[j].is_active )

\* the version an upsert of this request writes for cell type t, given the
\* table the request started from
VersionWritten(c, t) ==
    LET prior == { j \in 1..Len(frame[c].before) :
                    /\ frame[c].before[j].notebook_id = frame[c].notebook_id
                    /\ frame[c].before[j].cell_type = t
                    /\ frame[c].before[j].is_active }
    IN IF prior = {} THEN 1
       ELSE frame[c].before[CHOOSE j \in prior : TRUE].version + 1

\* C5: if generate_code of stage k fails, coordinate returns success = false
\* with an error message and a results map holding exactly the entries of
\* stages 1..k-1; on a notebook without prior cells the table then holds,
\* for that notebook, exactly the cells of stages 1..k-1, each at version 1.
C5_GenerationFailure ==
    \A c \in Coordinators, k \in 1..7 :
        (FailedRun(c) /\ response[c].error = GenerationError(k)) =>
            /\ response[c].success = FALSE
            /\ DOMAIN response[c].results = StagesBefore(k)
            /\ \A a \in StagesBefore(k) :
                    /\ response[c].results[a].agent_id = a
                    /\ response[c].results[a].success = TRUE
            /\ NoPriorCells(c) =>
                LET cells == ActiveOfNotebook(frame[c].notebook_id)
                IN /\ Cardinality(cells) = k - 1
                   /\ { notebook_cells[x].cell_type : x \in cells } =
                        { get_cell_type(a) : a \in StagesBefore(k) }
                   /\ \A x \in cells : notebook_cells[x].version = 1

\* stage 4 (crossover) failed to generate on a notebook without prior cells
C5_Witness ==
    \E c \in Coordinators :
        /\ FailedRun(c)
        /\ response[c].error = GenerationError(4)
        /\ NoPriorCells(c)

\* C6: when a coordinate run has failed at stage k, no later stage has
\* generated, stored or broadcast anything in this run, and the cell of every
\* stage before k is still in the table with the code and the version that
\* stage wrote.
C6_HaltsWithoutRollback ==
    \A c \in Coordinators :
        FailedRun(c) =>
            LET k == frame[c].i
                req == frame[c].request
                nb == frame[c].notebook_id
                later == { execution_flow[j] : j \in (k + 1)..NumStages }
            IN /\ \A a \in later :
                    /\ agents[c][a].generated_code # Content(req, a)
                    /\ \A x \in RowIndices :
                            notebook_cells[x].code # Content(req, a)
                    /\ \A b \in AgentIds :
                        \A m \in 1..Len(agents[c][b].messages) :
                            agents[c][b].messages[m].content # Content(req, a)
               /\ \A a \in StagesBefore(k) :
                    /\ a \in DOMAIN response[c].results
                    /\ \E x \in ActiveRows(nb, get_cell_type(a)) :
                        /\ notebook_cells[x].id = response[c].results[a].cell_id
                        /\ notebook_cells[x].code = response[c].results[a].code
                        /\ notebook_cells[x].code = Content(req, a)
                        /\ notebook_cells[x].version =
                                VersionWritten(c, get_cell_type(a))

\* a run failed after at least two stages had stored their cells
C6_Witness ==
    \E c \in Coordinators :
        /\ FailedRun(c)
        /\ frame[c].i = 3
        /\ Cardinality(ActiveOfNotebook(frame[c].notebook_id)) >= 2

\* C7: if the upsert of stage k fails, coordinate returns success = false
\* with results holding exactly stages 1..k-1 (no entry for k), the text
\* stage k generated has reached no agent's context or message list, and no
\* later stage has generated anything.
C7_StorageFailure ==
    \A c \in Coordinators, k \in 1..7 :
        (FailedRun(c) /\ response[c].error = StorageError(k)) =>
            LET a == execution_flow[k]
                text == Content(frame[c].request, a)
            IN /\ response[c].success = FALSE
               /\ DOMAIN response[c].results = StagesBefore(k)
               /\ a \notin DOMAIN response[c].results
               /\ agents[c][a].generated_code = text
               /\ \A b \in AgentIds :
                    /\ \A key \in DOMAIN agents[c][b].context :
                            agents[c][b].context[key] # text
                    /\ \A m \in 1..Len(agents[c][b].messages) :
                            agents[c][b].messages[m].content # text
               /\ \A j \in (k + 1)..NumStages :
                    agents[c][execution_flow[j]].generated_code #
                        Content(frame[c].request, execution_flow[j])

\* the upsert of stage 3 failed
C7_Witness ==
    \E c \in Coordinators :
        FailedRun(c) /\ response[c].error = StorageError(3)

\* the dict coordinate_agents returns: the success dict with all seven
\* entries, or the failure dict with an error and the entries of the stages
\* before the failed one
StructuredResult(c) ==
    \/ /\ response[c].success = TRUE
       /\ DOMAIN response[c].results = AgentIds
    \/ /\ response[c].success = FALSE
       /\ \E k \in 1..NumStages :
            /\ response[c].error \in { GenerationError(k), StorageError(k) }
            /\ DOMAIN response[c].results = StagesBefore(k)

\* C8: every coordinate call that has started eventually returns, and what
\* it returns is the success dict after all seven stages or the failure dict
\* with the partial results and the error of the first failure.
C8_Terminates ==
    \A c \in Coordinators :
        (frame[c].op = "coordinate" /\ pc[c] # "idle")
            ~> (Returned(c) /\ StructuredResult(c))

\* a run has returned the success dict
C8_Witness ==
    \E c \in Coordinators :
        Returned(c) /\ response[c].success /\ StructuredResult(c)

\* regenerate_cell has returned its success response
Regenerated(c) ==
    /\ pc[c] = "idle"
    /\ frame[c].op = "regenerate"
    /\ response[c] # None
    /\ response[c].success

\* when the request of c started, its notebook held what a full successful
\* run on a fresh notebook leaves: one active cell per cell type, version 1
AfterFullFreshRun(c) ==
    LET before == frame[c].before
        mine == { j \in 1..Len(before) :
                    /\ before[j].notebook_id = frame[c].notebook_id
                    /\ before[j].is_active }
    IN /\ Cardinality(mine) = 7
       /\ { before[j].cell_type : j \in mine } = ValidCellTypes
       /\ \A j \in mine : before[j].version = 1

\* C9: regenerating cell type t after a full successful run on a fresh
\* notebook leaves the table with the same rows, all unchanged except the
\* cell of type t, whose version is 2; the response reports version 2 and
\* action "updated".
C9_RegenerationIsolation ==
    \A c \in Coordinators :
        (Regenerated(c) /\ AfterFullFreshRun(c)) =>
            LET before == frame[c].before
                nb == frame[c].notebook_id
                t == frame[c].cell_type
            IN /\ Len(notebook_cells) = Len(before)
               /\ \A j \in 1..Len(before) :
                    IF before[j].notebook_id = nb /\ before[j].cell_type = t
                    THEN /\ notebook_cells[j].version = 2
                         /\ notebook_cells[j].id = before[j].id
                         /\ notebook_cells[j].is_active
                         /\ notebook_cells[j].cell_type = t
                         /\ notebook_cells[j].code =
                                response[c].data.generated_code
                         /\ response[c].data.cell_id = before[j].id
                    ELSE notebook_cells[j] = before[j]
               /\ response[c].data.version = 2
               /\ response[c].data.action = "updated"

\* the fitness cell regenerated after a full run
C9_Witness ==
    \E c \in Coordinators :
        /\ Regenerated(c)
        /\ AfterFullFreshRun(c)
        /\ frame[c].cell_type = "fitness"

\* C10: when regeneration of cell type t invokes generate_code, the agent's
\* context holds the stored code of every other active cell of the notebook
\* under the key "{agent_id}_code" of the agent producing that cell type,
\* and nothing is seeded for t itself.
C10_SeededByAgentId ==
    \A c \in Coordinators :
        (pc[c] = "generate" /\ frame[c].op = "regenerate") =>
            LET context == agents[c][CurrentAgent(c)].context
                t == frame[c].cell_type
            IN /\ \A x \in ActiveOfNotebook(frame[c].notebook_id) :
                    notebook_cells[x].cell_type # t =>
                        LET key == CodeKey(cell_to_agent(
                                        notebook_cells[x].cell_type))
                        IN /\ key \in DOMAIN context
                           /\ context[key] = notebook_cells[x].code
               /\ CodeKey(cell_to_agent(t)) \notin DOMAIN context
               /\ CodeKey(t) \notin DOMAIN context

\* C11: in a coordinate run, when one of the stages 2..6 invokes
\* generate_code, the invoked agent's context holds the key "analysis" with
\* the dict the Problem Analyser derived in stage 1 of the same run.
C11_AnalysisAvailable ==
    \A c \in Coordinators :
        (InvokingStage(c) /\ frame[c].i \in 2..6) =>
            LET context == agents[c][CurrentAgent(c)].context
            IN /\ "analysis" \in DOMAIN context
               /\ context["analysis"] = Analysis(frame[c].problem_context)


\* the stages of the coordinate run of c whose generate_code has started
StagesStarted(c) ==
    { k \in 1..NumStages : frame[c].invocations[execution_flow[k]] > 0 }

\* C12: within one coordinate run, stage i+1's generate_code has started
\* only if stage i's generation call has returned this run's text and stage
\* i's upsert has returned and left its cell in the table; and at most one
\* backend call of the run is outstanding at any time.
C12_StrictlySequential ==
    \A c \in Coordinators :
        frame[c].op = "coordinate" =>
            /\ Cardinality(frame[c].outstanding) <= 1
            /\ \A k \in StagesStarted(c) \ {1} :
                LET prev == execution_flow[k - 1]
                    text == Content(frame[c].request, prev)
                IN /\ (k - 1) \in StagesStarted(c)
                   /\ prev \notin frame[c].outstanding
                   /\ agents[c][prev].generated_code = text
                   /\ prev \in DOMAIN frame[c].results
                   /\ \E x \in ActiveRows(frame[c].notebook_id,
                                          get_cell_type(prev)) :
                        /\ notebook_cells[x].id =
                                frame[c].results[prev].cell_id
                        /\ notebook_cells[x].code = text

\* the backend call of the last stage is outstanding
C12_Witness ==
    \E c \in Coordinators :
        /\ frame[c].op = "coordinate"
        /\ pc[c] = "backend"
        /\ frame[c].outstanding = { "code_integration" }
        /\ StagesStarted(c) = 1..NumStages


\* coordinate_agents has returned the success dict
Succeeded(c) == Returned(c) /\ response[c].success

\* C13: when all seven stages generate and store, coordinate returns
\* success = true and a results map with exactly the seven agent ids as
\* keys, each entry holding success = true, the agent's id and cell type, the
\* text that agent generated in this run and the id of the cell that holds
\* it; on a notebook without prior cells the table then has exactly seven
\* active cells of the notebook, one per position 1..7, all at version 1.
C13_FullSuccess ==
    \A c \in Coordinators :
        Succeeded(c) =>
            LET results == response[c].results
                nb == frame[c].notebook_id
                cells == ActiveOfNotebook(nb)
            IN /\ response[c].success = TRUE
               /\ DOMAIN results = AgentIds
               /\ Cardinality(DOMAIN results) = 7
               /\ \A a \in AgentIds :
                    /\ results[a].agent_id = a
                    /\ results[a].success = TRUE
                    /\ results[a].cell_type = get_cell_type(a)
                    /\ results[a].code = Content(frame[c].request, a)
                    /\ results[a].code = agents[c][a].generated_code
                    /\ \E x \in ActiveRows(nb, get_cell_type(a)) :
                        /\ notebook_cells[x].id = results[a].cell_id
                        /\ notebook_cells[x].code = results[a].code
               /\ NoPriorCells(c) =>
                    /\ Cardinality(cells) = 7
                    /\ { notebook_cells[x].position : x \in cells } = 1..7
                    /\ \A x \in cells :
                        /\ notebook_cells[x].version = 1
                        /\ notebook_cells[x].position =
                                cell_position(notebook_cells[x].agent_id)
                        /\ notebook_cells[x].id =
                                results[notebook_cells[x].agent_id].cell_id

\* a full run has succeeded on a notebook that had no cells
C13_Witness ==
    \E c \in Coordinators : Succeeded(c) /\ NoPriorCells(c)


\* the handler of c has returned a listing or a program view of a notebook
Listed(c) ==
    /\ pc[c] = "idle"
    /\ frame[c].op \in { "cells", "complete_code" }
    /\ response[c] # None
    /\ response[c].success

\* the active rows of the notebook in the table the handler of c read
ActiveBefore(c) ==
    { j \in 1..Len(frame[c].before) :
        /\ frame[c].before[j].notebook_id = frame[c].notebook_id
        /\ frame[c].before[j].is_active }

\* C14: whatever the order in which the cells were created, the list of a
\* notebook's cells holds exactly its active cells, ordered by position and,
\* for equal positions, by created_at ascending; the program view has one
\* block per cell of that list, in the same order, made of a header line
\* naming the cell's type (in upper case) and its agent_id, a separator line,
\* the cell's code unchanged and an empty line.
C14_ListingOrder ==
    \A c \in Coordinators :
        Listed(c) =>
            LET cells == frame[c].cells
                before == frame[c].before
                N == Len(cells)
            IN /\ N = Cardinality(ActiveBefore(c))
               /\ \A j \in ActiveBefore(c) :
                    \E n \in 1..N :
                        /\ cells[n].id = before[j].id
                        /\ cells[n].cell_type = before[j].cell_type
                        /\ cells[n].agent_id = before[j].agent_id
                        /\ cells[n].code = before[j].code
                        /\ cells[n].position = before[j].position
                        /\ cells[n].created_at = before[j].created_at
               /\ \A m \in 1..N : \A n \in (m + 1)..N :
                    \/ cells[m].position < cells[n].position
                    \/ /\ cells[m].position = cells[n].position
                       /\ cells[m].created_at <= cells[n].created_at
               /\ frame[c].op = "cells" => response[c].data.cells = cells
               /\ (frame[c].op = "complete_code" /\ N > 0) =>
                    LET parts == response[c].data.complete_code
                    IN /\ Len(parts) = 3 + 4 * N
                       /\ \A n \in 1..N :
                            /\ parts[4 * n] =
                                "# " \o upper(cells[n].cell_type) \o
                                " - Generated by " \o cells[n].agent_id
                            /\ parts[4 * n + 2] = cells[n].code
                            /\ parts[4 * n + 3] = ""

\* a program view of three cells: the first one listed was created last,
\* the other two have the same position
C14_Witness ==
    \E c \in Coordinators :
        /\ Listed(c)
        /\ frame[c].op = "complete_code"
        /\ Len(frame[c].cells) = 3
        /\ frame[c].cells[1].id > frame[c].cells[2].id
        /\ frame[c].cells[2].position = frame[c].cells[3].position

\* the handler of d holds a list of notebook nb read from the table as it
\* is now: no write has happened since
ListedNow(d, nb) ==
    /\ Listed(d)
    /\ frame[d].op = "cells"
    /\ frame[d].notebook_id = nb
    /\ frame[d].before = notebook_cells

\* C15: a list call changes no cell, and when a list of the same notebook
\* was returned earlier with no write to the table since, the call returns
\* the same cells in the same order.
C15_ListingRepeatable ==
    [][ \A c \in Coordinators, nb \in Notebooks :
            GetNotebookCells(c, nb) =>
                /\ notebook_cells' = notebook_cells
                /\ \A d \in Coordinators :
                    (ListedNow(d, nb) /\ response'[c].success) =>
                        response'[c].data.cells = response[d].data.cells ]_vars

\* both handlers hold the same list of two or more cells of the notebook,
\* read from the table as it is now
C15_Witness ==
    \E c \in Coordinators : \E d \in Coordinators \ {c} :
        \E nb \in Notebooks :
            /\ ListedNow(c, nb)
            /\ ListedNow(d, nb)
            /\ Len(response[c].data.cells) >= 2
            /\ response[c].data.cells = response[d].data.cells


\* the seven enumerated cell types
EnumeratedCellTypes ==
    { "problem_analysis", "individual_representation", "fitness",
      "crossover", "mutation", "selection", "toolbox_registration" }

\* C16: a regeneration request naming a cell type outside the seven
\* enumerated values ends at once with an error response: the handler is
\* finished, no agent is constructed or seeded, no backend call is made or
\* outstanding and the table is not written.
C16_InvalidTypeRejected ==
    [][ \A c \in Coordinators, nb \in Notebooks, t \in RequestedCellTypes :
            (RegenerateRequest(c, nb, t) /\ t \notin EnumeratedCellTypes) =>
                /\ pc'[c] = "idle"
                /\ response'[c] # None
                /\ response'[c].success = FALSE
                /\ response'[c].status_code = 400
                /\ agents' = agents
                /\ notebook_cells' = notebook_cells
                /\ clock' = clock
                /\ frame'[c].outstanding = {}
                /\ \A a \in AgentIds : frame'[c].backend_calls[a] = 0 ]_vars

\* a request for an unknown cell type was rejected on a notebook that has
\* cells, by a handler whose agents had run before
C16_Witness ==
    \E c \in Coordinators :
        /\ frame[c].op = "rejected"
        /\ frame[c].cell_type \notin EnumeratedCellTypes
        /\ response[c].status_code = 400
        /\ ActiveOfNotebook(frame[c].notebook_id) # {}
        /\ agents[c] # NewAgents


\* the backend call of the handler of c raises: after this step of
\* generate_response the call is no longer outstanding
BackendCallRaises(c) == AttemptFails(c) /\ frame'[c].outstanding = {}

\* C17: within one coordinate call every agent's generate_code is invoked
\* at most once and has made exactly one backend call per invocation; when
\* the backend call raises, no further invocation or backend call is made:
\* the run returns at once with success = false and that stage's generation
\* error.
C17_NoRetry ==
    [][ \A c \in Coordinators :
            /\ frame'[c].op = "coordinate" =>
                \A a \in AgentIds :
                    /\ frame'[c].invocations[a] <= 1
                    /\ frame'[c].backend_calls[a] = frame'[c].invocations[a]
            /\ (frame[c].op = "coordinate" /\ BackendCallRaises(c)) =>
                /\ frame[c].invocations[CurrentAgent(c)] = 1
                /\ frame[c].backend_calls[CurrentAgent(c)] = 1
                /\ frame'[c].invocations = frame[c].invocations
                /\ frame'[c].backend_calls = frame[c].backend_calls
                /\ pc'[c] = "idle"
                /\ response'[c] # None
                /\ response'[c].success = FALSE
                /\ response'[c].error =
                        GenerationFailedMessage(CurrentAgent(c)) ]_vars

\* the backend call of stage 2 raised and the run returned its failure
C17_Witness ==
    \E c \in Coordinators :
        /\ FailedRun(c)
        /\ response[c].error = GenerationError(2)
        /\ frame[c].backend_calls["individuals_modelling"] = 1
        /\ frame[c].backend_calls["fitness_function"] = 0


\* text was generated in the run of coordinator c
GeneratedIn(text, c) == text.request = frame[c].request

\* C18: of two coordinate runs on different notebooks, each with its own
\* coordinator and interleaved in any order, every generated_code, every
\* "{agent_id}_code" context entry and every message held by an agent of
\* one run is text generated in that run, its "analysis" entry is derived
\* from its own notebook's problem, and the cells holding the run's texts
\* are exactly the cells of its own notebook.
C18_RunsIsolated ==
    \A c \in Coordinators :
        frame[c].op = "coordinate" =>
            /\ \A a \in AgentIds :
                LET agent == agents[c][a]
                IN /\ agent.generated_code # None =>
                        GeneratedIn(agent.generated_code, c)
                   /\ \A key \in DOMAIN agent.context :
                        IF key = "analysis"
                        THEN agent.context[key] =
                                Analysis(ProblemContextOf(frame[c].notebook_id))
                        ELSE GeneratedIn(agent.context[key], c)
                   /\ \A m \in 1..Len(agent.messages) :
                        GeneratedIn(agent.messages[m].content, c)
            /\ \A x \in RowIndices :
                GeneratedIn(notebook_cells[x].code, c) <=>
                    notebook_cells[x].notebook_id = frame[c].notebook_id
            /\ \A a \in DOMAIN frame[c].results :
                notebook_cells[RowById(frame[c].results[a].cell_id)]
                    .notebook_id = frame[c].notebook_id

\* both runs have succeeded on different notebooks, and their writes were
\* interleaved: the first two rows of the table belong to different notebooks
C18_Witness ==
    /\ \A c \in Coordinators : Succeeded(c)
    /\ frame[1].notebook_id # frame[2].notebook_id
    /\ Len(notebook_cells) = 2 * NumStages
    /\ notebook_cells[1].notebook_id # notebook_cells[2].notebook_id


\* the Problem Analyser's generate_code has succeeded in the request of c
AnalyserDone(c) ==
    /\ frame[c].request > 0
    /\ agents[c]["problem_analyser"].generated_code =
            Content(frame[c].request, "problem_analyser")

\* "maximize" occurs in s, whatever the case of each of its letters
MAXIMIZE == << "M", "A", "X", "I", "M", "I", "Z", "E" >>

OccursAnyCase(s) ==
    \E k \in 0..(Len(s) - 8) :
        \A j \in 1..8 : s[k + j] \in { maximize[j], MAXIMIZE[j] }

\* C19 as stated: after a successful Problem Analyser generate_code,
\* analysis.optimization_direction is "maximize" if the literal substring
\* "maximize" occurs in the string form of the objectives list and
\* "minimize" otherwise, and analysis.individual_structure is "list".
C19_LiteralSubstring ==
    \A c \in Coordinators :
        AnalyserDone(c) =>
            LET analysis == agents[c]["problem_analyser"].context["analysis"]
                text == StrList(frame[c].problem_context.objectives)
            IN /\ analysis.optimization_direction =
                    (IF Contains(maximize, text)
                     THEN "maximize" ELSE "minimize")
               /\ analysis.individual_structure = "list"

\* C19 amended: after a successful Problem Analyser generate_code,
\* analysis.optimization_direction is "maximize" if "maximize" occurs in the
\* string form of the objectives list in any mix of upper and lower case,
\* and "minimize" otherwise; analysis.individual_structure is "list" for
\* every problem type.
C19_SubstringAnyCase ==
    \A c \in Coordinators :
        AnalyserDone(c) =>
            LET analysis == agents[c]["problem_analyser"].context["analysis"]
                text == StrList(frame[c].problem_context.objectives)
            IN /\ analysis.optimization_direction =
                    (IF OccursAnyCase(text) THEN "maximize" ELSE "minimize")
               /\ analysis.individual_structure = "list"
               /\ analysis.problem_type = frame[c].problem_context.problem_type

\* analysed objectives that hold "maximize" with a capital letter only
C19_Witness ==
    \E c \in Coordinators :
        /\ AnalyserDone(c)
        /\ ~ Contains(maximize,
                      StrList(frame[c].problem_context.objectives))
        /\ agents[c]["problem_analyser"].context["analysis"]
                .optimization_direction = "maximize"


\* C20: receive_message appends the message to the agent's message list and
\* leaves generated_code and every other agent as they were; a
\* code_generated message sets context["{from_agent}_code"] to its content
\* and changes no other key; a context_update message puts every entry of
\* its mapping into context, replacing the entries of equal key and keeping
\* the others; a message of any other type leaves context unchanged.
C20_ReceiveMessage ==
    [][ \A c \in Coordinators, a \in AgentIds, message \in Messages :
            ReceiveMessage(c, a, message) =>
                LET old == agents[c][a]
                    new == agents'[c][a]
                    content == message.content
                    key == message.from_agent \o "_code"
                IN /\ new.messages = old.messages \o << message >>
                   /\ new.generated_code = old.generated_code
                   /\ \A b \in AgentIds \ {a} : agents'[c][b] = agents[c][b]
                   /\ IF message.message_type = "code_generated"
                      THEN /\ DOMAIN new.context =
                                (DOMAIN old.context) \cup {key}
                           /\ new.context[key] = content
                           /\ \A k \in (DOMAIN old.context) \ {key} :
                                new.context[k] = old.context[k]
                      ELSE IF message.message_type = "context_update"
                      THEN /\ DOMAIN new.context =
                                (DOMAIN old.context) \cup (DOMAIN content)
                           /\ \A k \in DOMAIN content :
                                new.context[k] = content[k]
                           /\ \A k \in (DOMAIN old.context) \ (DOMAIN content) :
                                new.context[k] = old.context[k]
                      ELSE new.context = old.context ]_vars

\* an agent that has generated its code received a code_generated message
\* and then a context_update that replaced the entry the first had set and
\* added another
C20_Witness ==
    \E c \in Coordinators, a \in AgentIds :
        LET agent == agents[c][a]
        IN /\ agent.generated_code # None
           /\ Len(agent.messages) = 2
           /\ agent.messages[1].message_type = "code_generated"
           /\ agent.messages[2].message_type = "context_update"
           /\ LET key == agent.messages[1].from_agent \o "_code"
              IN /\ key \in DOMAIN agent.messages[2].content
                 /\ agent.context[key] = agent.messages[2].content[key]
                 /\ agent.context[key] # agent.messages[1].content
                 /\ Cardinality(DOMAIN agent.context) >= 2


\* C21: when requests do not overlap, an upsert for a (notebook_id,
\* cell_type) that has an active cell writes that one row only: its code and
\* agent_id become the ones passed, its version grows by exactly 1 and its
\* updated_at advances, while its id, notebook_id, cell_type, position,
\* is_active and created_at stay; no row is added, every other row is
\* unchanged, and the cell_id returned is the existing cell's id.  The
\* lookup and the version read write nothing.
C21_UpdateInPlace ==
    [][ \A c \in Coordinators :
            /\ (LookupCell(c) \/ ReadVersion(c)) =>
                    notebook_cells' = notebook_cells
            /\ UpdateCell(c) =>
                LET nb == frame[c].notebook_id
                    t == get_cell_type(CurrentAgent(c))
                IN /\ Cardinality(ActiveRows(nb, t)) = 1
                   /\ Len(notebook_cells') = Len(notebook_cells)
                   /\ \A k \in ActiveRows(nb, t) :
                        LET old == notebook_cells[k]
                            new == notebook_cells'[k]
                        IN /\ new.code = frame[c].generated_code
                           /\ new.agent_id = CurrentAgent(c)
                           /\ new.version = old.version + 1
                           /\ new.updated_at > old.updated_at
                           /\ new.id = old.id
                           /\ new.notebook_id = old.notebook_id
                           /\ new.cell_type = old.cell_type
                           /\ new.position = old.position
                           /\ new.is_active = old.is_active
                           /\ new.created_at = old.created_at
                           /\ frame'[c].cell_result.cell_id = old.id
                           /\ frame'[c].cell_result.action = "updated"
                   /\ \A j \in RowIndices \ ActiveRows(nb, t) :
                        notebook_cells'[j] = notebook_cells[j] ]_vars

\* a cell updated in a table that holds the seven cells of a notebook
C21_Witness ==
    \E c \in Coordinators :
        /\ UpsertReturned(c)
        /\ frame[c].cell_result.action = "updated"
        /\ \E x \in RowIndices :
            /\ notebook_cells[x].id = frame[c].cell_result.cell_id
            /\ notebook_cells[x].updated_at > notebook_cells[x].created_at
        /\ Cardinality(ActiveOfNotebook(frame[c].notebook_id)) = 7


\* a coordinate run of coordinator c is in progress
Running(c) == frame[c].op = "coordinate" /\ pc[c] # "idle"

\* d1 and d2 agree on every key except possibly key
SameExcept(d1, d2, key) ==
    /\ (DOMAIN d1) \ {key} = (DOMAIN d2) \ {key}
    /\ \A x \in (DOMAIN d1) \ {key} : d1[x] = d2[x]

\* C22: during a coordinate run, generate_code of stages 2..7 leaves the
\* running agent's context unchanged and generate_code of stage 1 changes
\* only its own "analysis" entry; no generate_code step and no upsert step
\* changes another agent's context; the broadcast after stage i changes no
\* context of the agents of stages 1..i; and the problem context of the run
\* stays the one it was called with.
C22_ContextWriters ==
    [][ \A c \in Coordinators :
            Running(c) =>
                LET i == frame[c].i
                    current == execution_flow[i]
                IN /\ frame'[c].problem_context = frame[c].problem_context
                   /\ frame[c].problem_context =
                            ProblemContextOf(frame[c].notebook_id)
                   /\ GenerateStep(c) =>
                        /\ \A a \in AgentIds \ {current} :
                                agents'[c][a] = agents[c][a]
                        /\ IF i = 1
                           THEN SameExcept(agents'[c][current].context,
                                           agents[c][current].context,
                                           "analysis")
                           ELSE agents'[c][current].context =
                                    agents[c][current].context
                   /\ UpsertStep(c) => agents' = agents
                   /\ RecordAndPropagate(c) =>
                        \A j \in 1..i :
                            agents'[c][execution_flow[j]].context =
                                agents[c][execution_flow[j]].context
                   /\ \A a \in AgentIds :
                        agents'[c][a].context # agents[c][a].context =>
                            \/ RecordAndPropagate(c)
                            \/ AttemptSucceeds(c) /\ i = 1 ]_vars

\* stage 2 has generated its text: its agent's context holds what the
\* broadcast after stage 1 put there and nothing else
C22_Witness ==
    \E c \in Coordinators :
        /\ Running(c)
        /\ pc[c] = "lookup"
        /\ frame[c].i = 2
        /\ DOMAIN agents[c]["individuals_modelling"].context =
                { "problem_analyser_code" }
        /\ "analysis" \in DOMAIN agents[c]["problem_analyser"].context


\* the handler of d holds a program view of notebook nb built from the
\* table as it is now
ViewedNow(d, nb) ==
    /\ Listed(d)
    /\ frame[d].op = "complete_code"
    /\ frame[d].notebook_id = nb
    /\ frame[d].before = notebook_cells

\* C23: the program view makes no backend call and leaves the table, the
\* clock and all agents unchanged; for a notebook without active cells it
\* is exactly the one placeholder comment; and it is the text an earlier
\* view of the same notebook returned whenever the table is the one that
\* view was built from.
C23_ProgramViewPure ==
    [][ \A c \in Coordinators, nb \in Notebooks :
            GetCompleteCode(c, nb) =>
                /\ notebook_cells' = notebook_cells
                /\ clock' = clock
                /\ agents' = agents
                /\ upserts' = upserts
                /\ pc'[c] = "idle"
                /\ frame'[c].outstanding = {}
                /\ \A a \in AgentIds : frame'[c].backend_calls[a] = 0
                /\ response'[c] # None
                /\ response'[c].success =>
                    /\ ActiveOfNotebook(nb) = {} =>
                        response'[c].data.complete_code =
                            << "# No code generated yet" >>
                    /\ ActiveOfNotebook(nb) # {} =>
                        Len(response'[c].data.complete_code) > 1
                    /\ \A d \in Coordinators :
                        ViewedNow(d, nb) =>
                            response'[c].data.complete_code =
                                response[d].data.complete_code ]_vars

\* both handlers hold the same program view of two or more cells, built
\* from the table as it is now
C23_Witness ==
    \E c \in Coordinators : \E d \in Coordinators \ {c} :
        \E nb \in Notebooks :
            /\ ViewedNow(c, nb)
            /\ ViewedNow(d, nb)
            /\ Len(frame[c].cells) >= 2
            /\ response[c].data.complete_code =
                    response[d].data.complete_code


\* C24: when coordinate returns success = false, the error names one stage
\* k, and k is the stage after the last results entry: every stage before k
\* has an entry with the code it generated in this run and the id of the
\* cell its upsert wrote, and neither k nor a later stage has an entry; k is
\* the stage the loop had reached and no stage before it failed.
C24_ErrorNamesFirstFailedStage ==
    \A c \in Coordinators :
        FailedRun(c) =>
            LET k == Cardinality(DOMAIN response[c].results) + 1
                nb == frame[c].notebook_id
            IN /\ k <= NumStages
               /\ response[c].error \in { GenerationError(k), StorageError(k) }
               /\ \A j \in 1..NumStages :
                    j # k => response[c].error \notin
                                { GenerationError(j), StorageError(j) }
               /\ frame[c].i = k
               /\ \A j \in 1..NumStages :
                    LET a == execution_flow[j]
                    IN IF j < k
                       THEN /\ a \in DOMAIN response[c].results
                            /\ response[c].results[a].code =
                                    Content(frame[c].request, a)
                            /\ agents[c][a].generated_code =
                                    response[c].results[a].code
                            /\ \E x \in ActiveRows(nb, get_cell_type(a)) :
                                /\ notebook_cells[x].id =
                                        response[c].results[a].cell_id
                                /\ notebook_cells[x].code =
                                        response[c].results[a].code
                       ELSE a \notin DOMAIN response[c].results
               /\ response[c].error = GenerationError(k) =>
                    agents[c][execution_flow[k]].generated_code #
                        Content(frame[c].request, execution_flow[k])
               /\ response[c].error = StorageError(k) =>
                    \A x \in ActiveRows(nb, get_cell_type(execution_flow[k])) :
                        notebook_cells[x].code #
                            Content(frame[c].request, execution_flow[k])

\* a run failed at stage 5 with four entries in results
C24_Witness ==
    \E c \in Coordinators :
        /\ FailedRun(c)
        /\ Cardinality(DOMAIN response[c].results) = 4
        /\ response[c].error \in { GenerationError(5), StorageError(5) }


\* the seven fixed rows: cell type, agent id and position of each agent
FixedRows ==
    { << get_cell_type(a), a, cell_position(a) >> : a \in AgentIds }

\* C25: the mapping from cell types to agent ids is a bijection that
\* inverts get_cell_type; a regeneration addressed by cell type t invokes
\* only the agent whose cell type is t; the cell an upsert wrote carries the
\* cell type, agent id and position of the agent that ran; and every active
\* cell's (cell_type, agent_id, position) is one of the seven fixed rows,
\* whose positions are 1..7.
C25_FixedRows ==
    /\ \A t \in ValidCellTypes :
            /\ cell_to_agent(t) \in AgentIds
            /\ get_cell_type(cell_to_agent(t)) = t
    /\ \A a \in AgentIds :
            /\ get_cell_type(a) \in ValidCellTypes
            /\ cell_to_agent(get_cell_type(a)) = a
    /\ { r[3] : r \in FixedRows } = 1..7
    /\ Cardinality(FixedRows) = 7
    /\ \A c \in Coordinators :
            frame[c].op = "regenerate" =>
                \A a \in AgentIds :
                    (frame[c].invocations[a] > 0 \/ a \in frame[c].outstanding)
                        => get_cell_type(a) = frame[c].cell_type
    /\ \A c \in Coordinators :
            UpsertReturned(c) =>
                \E x \in RowIndices :
                    /\ notebook_cells[x].id = frame[c].cell_result.cell_id
                    /\ notebook_cells[x].is_active
                    /\ notebook_cells[x].notebook_id = frame[c].notebook_id
                    /\ notebook_cells[x].agent_id = CurrentAgent(c)
                    /\ notebook_cells[x].cell_type =
                            get_cell_type(CurrentAgent(c))
                    /\ notebook_cells[x].position =
                            cell_position(CurrentAgent(c))
                    /\ frame[c].op = "regenerate" =>
                            notebook_cells[x].cell_type = frame[c].cell_type
    /\ \A x \in RowIndices :
        notebook_cells[x].is_active =>
            << notebook_cells[x].cell_type, notebook_cells[x].agent_id,
               notebook_cells[x].position >> \in FixedRows

\* a regeneration of "selection" created the cell of a notebook that had no
\* cell: the row is at position 6 although it is the only one
C25_Witness ==
    \E c \in Coordinators :
        /\ UpsertReturned(c)
        /\ frame[c].op = "regenerate"
        /\ frame[c].cell_type = "selection"
        /\ frame[c].cell_result.action = "created"
        /\ \A x \in ActiveOfNotebook(frame[c].notebook_id) :
                /\ notebook_cells[x].position = 6
                /\ notebook_cells[x].agent_id = "selection_strategy"


\* a generate_response call of the handler of c is in progress: its attempt
\* number frame[c].attempt + 1 is awaited
Calling(c) == pc[c] = "backend"

\* C26: a generate_response call makes at most max_retries attempts; a
\* successful attempt returns its content at once; a failed attempt is
\* followed by one delay and the next attempt unless it was the last, in
\* which case the call raises without a delay; so the delays taken are the
\* failed attempts before the last one, and every call ends, with a value
\* or with the error.
C26_BoundedRetries ==
    /\ [][ \A c \in Coordinators :
            /\ Calling(c) =>
                /\ frame[c].attempt + 1 <= max_retries
                /\ frame[c].waits = frame[c].attempt
            /\ (Calling(c) /\ ~Calling(c)') =>
                \/ /\ pc'[c] = "lookup"
                   /\ frame'[c].generated_code =
                        Content(frame[c].request, CurrentAgent(c))
                   /\ frame'[c].attempt = frame[c].attempt
                   /\ frame'[c].waits = frame[c].waits
                \/ /\ pc'[c] = "idle"
                   /\ response'[c] # None
                   /\ ~response'[c].success
                   /\ frame[c].attempt + 1 = max_retries
                   /\ frame'[c].waits = max_retries - 1
            /\ (Calling(c) /\ Calling(c)' /\ frame'[c] # frame[c]) =>
                /\ frame'[c].attempt = frame[c].attempt + 1
                /\ frame'[c].waits = frame[c].waits + 1
                /\ frame'[c].attempt + 1 <= max_retries
                /\ agents' = agents
                /\ response' = response ]_vars
    /\ \A c \in Coordinators : Calling(c) ~> ~Calling(c)

\* a call returned the content of its third attempt, after two delays
C26_Witness ==
    \E c \in Coordinators :
        /\ pc[c] = "lookup"
        /\ frame[c].attempt + 1 = max_retries
        /\ frame[c].waits = 2
        /\ frame[c].generated_code =
                Content(frame[c].request, CurrentAgent(c))


\* the handler of c is in a run on a coordinator that ran before, at the
\* invocation of generate_code of stage k or inside it
LaterRunAt(c, k) ==
    /\ frame[c].op = "coordinate"
    /\ ~frame[c].fresh
    /\ pc[c] \in {"generate", "backend"}
    /\ frame[c].i = k

\* C27: in a run on a coordinator that already ran, when generate_code of
\* stage k is invoked the invoked agent's context holds, under
\* "{agent_id}_code" for each agent of stages 1..k-1, the text that agent
\* generated in this run; no agent's context holds an earlier run's text
\* under one of these keys, and the prompt of stage k is built from this
\* run's texts.
C27_LaterRunContext ==
    \A c \in Coordinators, k \in 1..NumStages :
        LaterRunAt(c, k) =>
            /\ \A j \in 1..(k - 1) :
                LET key == CodeKey(execution_flow[j])
                    text == Content(frame[c].request, execution_flow[j])
                IN /\ key \in DOMAIN agents[c][execution_flow[k]].context
                   /\ agents[c][execution_flow[k]].context[key] = text
                   /\ \A b \in AgentIds :
                        key \in DOMAIN agents[c][b].context =>
                            agents[c][b].context[key] = text
                   /\ (pc[c] = "backend" /\ key \in DOMAIN frame[c].prompt) =>
                        frame[c].prompt[key] = text

\* stage 3 of a later run is invoked while the last agent still holds the
\* earlier run's fitness_function_code
C27_Witness ==
    \E c \in Coordinators :
        /\ LaterRunAt(c, 3)
        /\ pc[c] = "generate"
        /\ "fitness_function_code" \in
                DOMAIN agents[c]["code_integration"].context
        /\ agents[c]["code_integration"].context["fitness_function_code"]
                .request # frame[c].request
        /\ agents[c]["fitness_function"].context["individuals_modelling_code"]
                .request = frame[c].request


\* C28: while a backend call is in progress and when it fails, no agent
\* changes: the calling agent keeps the generated_code and the context it
\* had when generate_code was invoked, a failed Problem Analyser call
\* leaves context["analysis"] absent or as it was, no agent receives a
\* message, and the request ends with a failure.
C28_FailedCallLeavesAgent ==
    [][ \A c \in Coordinators :
            (Calling(c) /\ pc'[c] # "lookup") =>
                LET a == CurrentAgent(c)
                IN /\ agents'[c][a].generated_code =
                            agents[c][a].generated_code
                   /\ agents'[c][a].context = agents[c][a].context
                   /\ ("analysis" \in DOMAIN agents'[c][a].context) =
                            ("analysis" \in DOMAIN agents[c][a].context)
                   /\ \A b \in AgentIds :
                            agents'[c][b].messages = agents[c][b].messages
                   /\ agents' = agents
                   /\ notebook_cells' = notebook_cells
                   /\ ~Calling(c)' =>
                        /\ pc'[c] = "idle"
                        /\ response'[c] # None
                        /\ ~response'[c].success
                        /\ agents'[c][a].generated_code #
                                Content(frame[c].request, a)
                        /\ (frame[c].fresh /\ a = "problem_analyser") =>
                                "analysis" \notin DOMAIN agents'[c][a].context
      ]_vars

\* the Problem Analyser call of a later run failed: the agent still holds
\* the text and the analysis of the earlier run
C28_Witness ==
    \E c \in Coordinators :
        /\ FailedRun(c)
        /\ ~frame[c].fresh
        /\ response[c].error = GenerationError(1)
        /\ "analysis" \in DOMAIN agents[c]["problem_analyser"].context
        /\ agents[c]["problem_analyser"].generated_code # None
        /\ agents[c]["problem_analyser"].generated_code.request #
                frame[c].request


\* the regeneration of the handler of c ended because generate_code raised
RegenerationGenerateFailed(c) ==
    /\ pc[c] = "idle"
    /\ frame[c].op = "regenerate"
    /\ response[c] # None
    /\ ~response[c].success
    /\ response[c].message = "Failed to regenerate cell: ChatGroq API failed"

\* C29: when generate_code fails during the regeneration of cell type t,
\* the table is the one the request found: the cell of type t, if there is
\* one, keeps its code, agent_id and version, no row was added, no upsert
\* was counted, and the response is the error response, without a version.
C29_FailedRegenerationKeepsStore ==
    \A c \in Coordinators :
        RegenerationGenerateFailed(c) =>
            LET nb == frame[c].notebook_id
                t == frame[c].cell_type
                old == frame[c].before
            IN /\ Len(notebook_cells) = Len(old)
               /\ notebook_cells = old
               /\ \A x \in ActiveRows(nb, t) :
                    /\ notebook_cells[x].code = old[x].code
                    /\ notebook_cells[x].agent_id = old[x].agent_id
                    /\ notebook_cells[x].version = old[x].version
                    /\ notebook_cells[x].code #
                            Content(frame[c].request, cell_to_agent(t))
               /\ ActiveRows(nb, t) =
                    { x \in 1..Len(old) : /\ old[x].notebook_id = nb
                                          /\ old[x].cell_type = t
                                          /\ old[x].is_active }
               /\ frame[c].cell_result = None
               /\ response[c].status_code = 500
               /\ DOMAIN response[c] = {"success", "status_code", "message"}

\* the regeneration of an existing cell failed to generate
C29_Witness ==
    \E c \in Coordinators :
        /\ RegenerationGenerateFailed(c)
        /\ ActiveRows(frame[c].notebook_id, frame[c].cell_type) # {}
        /\ frame[c].backend_calls[cell_to_agent(frame[c].cell_type)] = 1
        /\ frame[c].attempt + 1 = max_retries


\* the pair (nb, t) has no active cell before any upsert succeeded for it,
\* and afterwards exactly one, whose version is the number of upserts that
\* succeeded
VersionCountsUpserts(nb, t) ==
    IF upserts[<< nb, t >>] = 0
    THEN ActiveRows(nb, t) = {}
    ELSE /\ Cardinality(ActiveRows(nb, t)) = 1
         /\ \A x \in ActiveRows(nb, t) :
                notebook_cells[x].version = upserts[<< nb, t >>]

\* C30: with requests served one after the other, for each notebook and
\* cell type the active cell's version is the number of upserts that
\* succeeded for the pair and there is no cell while that number is 0; a
\* step in which no upsert succeeds for the pair leaves its cell as it is;
\* a step in which one succeeds leaves the cell with the code that upsert
\* was given, at a version one higher; so the code is the latest successful
\* upsert's and the version never decreases.
C30_VersionHistory ==
    [][ \A nb \in Notebooks, t \in ValidCellTypes :
            /\ VersionCountsUpserts(nb, t)
            /\ VersionCountsUpserts(nb, t)'
            /\ \A x \in ActiveRows(nb, t) :
                /\ x \in ActiveRows(nb, t)'
                /\ notebook_cells'[x].version >= notebook_cells[x].version
            /\ upserts'[<< nb, t >>] \in
                    { upserts[<< nb, t >>], upserts[<< nb, t >>] + 1 }
            /\ upserts'[<< nb, t >>] = upserts[<< nb, t >>] =>
                /\ ActiveRows(nb, t)' = ActiveRows(nb, t)
                /\ \A x \in ActiveRows(nb, t) :
                        notebook_cells'[x] = notebook_cells[x]
            /\ upserts'[<< nb, t >>] = upserts[<< nb, t >>] + 1 =>
                \E c \in Coordinators :
                    /\ UpsertStep(c)
                    /\ frame[c].notebook_id = nb
                    /\ get_cell_type(CurrentAgent(c)) = t
                    /\ \A x \in ActiveRows(nb, t)' :
                        /\ notebook_cells'[x].code = frame[c].generated_code
                        /\ notebook_cells'[x].code =
                                Content(frame[c].request, CurrentAgent(c))
                        /\ notebook_cells'[x].version =
                                upserts[<< nb, t >>] + 1
      ]_vars

\* after a run that failed part-way and a regeneration, a cell is at
\* version 2 with the regeneration's code while another is at version 1
C30_Witness ==
    \E c \in Coordinators, nb \in Notebooks :
        /\ frame[c].op = "regenerate"
        /\ UpsertReturned(c)
        /\ frame[c].notebook_id = nb
        /\ Cardinality(ActiveOfNotebook(nb)) \in 2..6
        /\ \E x \in ActiveRows(nb, frame[c].cell_type) :
            /\ notebook_cells[x].version = 2
            /\ upserts[<< nb, frame[c].cell_type >>] = 2
            /\ notebook_cells[x].code.request = frame[c].request
        /\ \E y \in ActiveOfNotebook(nb) :
            /\ notebook_cells[y].version = 1
            /\ notebook_cells[y].code.request # frame[c].request

====
